---- MODULE Spec2Model ----
\* A model of unitdb's storage engine: the time-mark ledger (memdb/timemark.go),
\* the segmented log file (wal/file.go), and the write-ahead log with its
\* reader and the memdb recovery that replays it (wal/reader.go, memdb/timelock.go).
EXTENDS Integers, Sequences, FiniteSets, TLC

VARIABLES
    \* ---- time-mark (memdb/timemark.go) ----
    records,          \* _TimeMark.records: timeID -> _TimeRecord
    releasedRecords,  \* _TimeMark.releasedRecords: timeID -> _TimeRecord
    timeRecord,       \* _TimeMark.timeRecord.lastUnref
    now,              \* the wall clock, time.Now().UTC().UnixNano()
    refCount,         \* history: per timeID, add() calls minus release() calls
    everZero,         \* history: timeIDs whose refCount has dropped to zero
    lastAbort,        \* history: the last abort, [tid, from] with from what tid was before
    sweep,            \* history: the last startExpirer, [kept, lost]: due entries kept, young ones evicted
    \* ---- segmented log file (wal/file.go) ----
    segments,         \* _File.segments: three records [offset, size]
    fsize,            \* _File.size
    allocated,        \* history: regions [off, size] returned by allocate, not yet freed
    untracked,        \* history: freed regions that no segment tracks
    extends,          \* history: number of allocations that extended the file
    \* ---- write-ahead log (wal) and its recovery (memdb.startRecover) ----
    file,             \* the bytes of the log file on disk
    pc,               \* where the process is: closed, opened, reading, ...
    cb,               \* the callback Reader.Read is given: "drain" or "recover"
    BufferSize,       \* Options.BufferSize
    needRecovery,     \* the flag wal.New returned
    recoveredLogs,    \* WAL.recoveredLogs
    wrecs,            \* the entries appended to the current Writer
    nextTimeID,       \* the timeID of the next group
    idx,              \* Reader.Read: idx
    bufOff,           \* Reader.Read: offset, the position in the buffer
    fileOff,          \* Reader.Read: fileOff
    bufSize,          \* Reader.Read: size
    buffer,           \* Reader.buffer
    readErr,          \* what the last Read returned: "none", "nil" or "err"
    log,              \* startRecover: the map the callback fills
    memdb,            \* the key/value pairs of the memdb
    hist,             \* history: the groups signalled, [timeID, recs, st]
    torn,             \* history: timeIDs whose SignalInitWrite was cut by a crash
    delivered,        \* history: what the callback saw in this session
    drained,          \* history: "now"/"before" once a Read returned nil
    owed,             \* history: groups a startRecover has to re-ingest
    cleanStart,       \* history: recovery began with every group WRITTEN
    \* ---- memdb: tiny-batches, locks and the tiny-batch loop ----
    tinyBatch,        \* db.internal.tinyBatch: [ID, count], ID 0 before Open
    made,             \* history: the tiny-batches created, [ID, by], in order
    writeQueue,       \* history: the tiny-batches handed to batchPool.write
    blockCache,       \* db.blockCache: timeID -> set of internal keys
    mu,               \* db.mu: "free", or the goroutine holding it
    timeLock,         \* db.internal.timeLock: lock index -> "free" or holder
    del,              \* the goroutine in delete(): [pc, timeID, key]
    loop,             \* the goroutine in tinyBatchLoop: [pc, timeID]
    appended,         \* history: per record put into a block, where it was counted
    \* ---- memdb: batch pool, write lock, close ----
    writeLockC,       \* db.internal.writeLockC: the tokens in the channel
    holders,          \* history: who is between acquiring and releasing writeLockC
    batchQueue,       \* the tiny-batches waiting for a pool worker
    writing,          \* history: the workers inside an Append/SignalInitWrite sequence
    worker,           \* per pool worker: [pc, tb]
    closeW,           \* db.internal.closeW: the counter of the wait group
    closed,           \* db.internal.closed
    closeC,           \* db.internal.closeC is closed
    closer,           \* per caller of close(): its position
    poolStopped,      \* batchPool.stopWait() has returned
    walClosed,        \* db.internal.closer.Close() was called
    recov,            \* startRecover: its position
    outcome,          \* history: what each tinyCommit returned and did, [ID, err, managed, ...]
    user,             \* the goroutine in a user commit: its position
    bat,              \* the Batch in use: [ID, keys, state]
    gone,             \* history: the keys put and later deleted, both written
    rel,              \* the goroutine in releaseLog: [pc, timeID, missing]
    applied,          \* the timeIDs whose log group SignalLogApplied has marked
    relLog,           \* history: what each releaseLog returned, and the state then
    \* ---- two Readers on one log (wal/reader.go) ----
    sharedLogs,       \* WAL.recoveredLogs as the Readers share it: [timeID, status]
    readers,          \* per Reader in Read: [pc, l, i]
    handed,           \* history: the timeIDs handed to a callback, in order
    outOfRange,       \* history: a Read has indexed recoveredLogs beyond its length
    \* ---- item iterator ----
    buckets,          \* the stored slots: per bucket, the entries in slot order
    it,               \* the ItemIterator: [nextBucketIdx, item, queue]
    ipc,              \* the position of the loop that uses the iterator
    yielded,          \* history: the items the loop got from Item()
    \* ---- unitdb: trie, time-window index and queries ----
    trie,             \* db.trie: the topics added, [hash, offset]
    winBlocks,        \* db.timeWindow: the window blocks on disk, [topicHash, next, entries]
    query,            \* the Query of the last lookup: [Limit, cutoff, winEntries, probed]
    \* ---- unitdb: entries, sequences and the lease ----
    sequence,         \* db.sequence
    lease,            \* db.lease: the freed slots, [topicHash, seq]
    entryVal,         \* the Entry values the callers hold
    setLog,           \* history: what each setEntry returned and assigned
    index,            \* the index file: the slots written, [seq, topicSize, topic]
    blockIdx,         \* db.blockIdx: the index blocks of the file
    synced,           \* the entries of setLog up to this one are written through
    cacheID,          \* db.cacheID
    readRes,          \* what the last readEntry returned and found
    loaded,           \* what loadTrie returned after the DB was opened again
    \* ---- unitdb: the header of the index file ----
    hdr,              \* the header at offset 0 of the index file
    windowIdx,        \* the window index of db.timeWindow
    headerRead        \* what the last readHeader read and returned

tmVars == <<records, releasedRecords, timeRecord, now, refCount, everZero, lastAbort, sweep>>

segVars == <<segments, fsize, allocated, untracked, extends>>

readerVars == <<idx, bufOff, fileOff, bufSize, buffer>>

walVars == <<file, pc, cb, BufferSize, needRecovery, recoveredLogs, wrecs, nextTimeID,
             readerVars, readErr, log, memdb, hist, torn, delivered, drained, owed,
             cleanStart>>

loopVars == <<tinyBatch, made, writeQueue, blockCache, mu, timeLock, del, loop, appended>>

poolVars == <<writeLockC, holders, batchQueue, writing, worker, closeW, closed, closeC,
              closer, poolStopped, walClosed, recov, outcome, user>>

dbVars == <<loopVars, poolVars, bat>>

iterVars == <<buckets, it, ipc, yielded>>

lookupVars == <<trie, winBlocks, query>>

entryVars == <<sequence, lease, entryVal, setLog, index, blockIdx, synced, cacheID,
               readRes, loaded>>

headerVars == <<hdr, windowIdx, headerRead>>

udbVars == <<lookupVars, entryVars, headerVars>>

relVars == <<rel, applied, relLog>>

rdrVars == <<sharedLogs, readers, handed, outOfRange>>

vars == <<tmVars, segVars, walVars, dbVars, gone, relVars, rdrVars, iterVars, udbVars>>

\* What the time-mark operations leave alone.
notTM == <<segVars, walVars, dbVars, gone, relVars, rdrVars, iterVars, udbVars>>

\* What the segmented-file operations leave alone.
notSeg == <<tmVars, walVars, dbVars, gone, relVars, rdrVars, iterVars, udbVars>>

\* What the log operations leave alone.
notWal == <<tmVars, segVars, dbVars, gone, relVars, rdrVars, iterVars, udbVars>>

\* What the iterator leaves alone.
notIter == <<tmVars, segVars, walVars, dbVars, gone, relVars, rdrVars, udbVars>>

\* What the operations of the unitdb index leave alone.
notUdb == <<tmVars, segVars, walVars, dbVars, gone, relVars, rdrVars, iterVars>>

\* What the memdb operations leave alone, the time-mark apart.
notDB == <<segVars, walVars, bat, gone, relVars, rdrVars, iterVars, udbVars>>

\* What the operations of a Batch leave alone, the time-mark and memdb apart.
notBatch == <<segVars, walVars, gone, relVars, rdrVars, iterVars, udbVars>>

\* What releaseLog leaves alone, memdb apart.
notRel == <<tmVars, segVars, walVars, poolVars, bat, gone, rdrVars, iterVars, udbVars>>

\* What the concurrent Readers leave alone.
notRdr == <<tmVars, segVars, walVars, dbVars, gone, relVars, iterVars, udbVars>>

-----------------------------------------------------------------------------
\* Bounds of the model.

\* Number of clock readings after ClockBase; the timeIDs are clock readings.
MaxClock == 2
\* Cap on the references one timeID holds at a time.
MaxRefs == 2
\* Cap on the allocations that extend the log file.
MaxExtends == 3
\* Cap on the groups signalled to the log over a run.
MaxGroups == 2
\* Cap on the entries appended to one group.
MaxAppend == 2
\* Cap on the writes cut by a crash over a run.
MaxTorn == 1
\* Tiny-batches created in one run, those of batch() included.
MaxMade == 4
\* Calls of delete in one run.
MaxDeletes == 2
\* Keys that delete is called with before a block is released.
MaxMarkers == 2
\* Calls of releaseLog over a run.
MaxReleases == 2
\* Readers that run Read on one log at a time.
MaxReaders == 2
\* The workers the batch pool is created with.
maxBatches == 2
\* Callers of close().
MaxClosers == 2
\* Tiny-batches handed to the pool in one run.
MaxQueue == 2
\* The buckets of the table the iterator walks.
nBuckets == 2
\* The topics in use.
MaxTopics == 2
\* The window entries stored.
MaxEntries == 4
\* The largest Limit of a query.
MaxLimit == 2
\* The Entry values in use.
MaxEntryVals == 1
\* The calls of setEntry, and the sequences given out.
MaxSets == 3

-----------------------------------------------------------------------------
\* Map helpers (Go maps as functions on a finite domain).

MapPut(m, k, v) == [x \in DOMAIN m \cup {k} |-> IF x = k THEN v ELSE m[x]]

MapDel(m, k) == [x \in DOMAIN m \ {k} |-> m[x]]

EmptyMap == [x \in {} |-> 0]

-----------------------------------------------------------------------------
\* Segmented log file.

\* The size of the file header, which precedes the first log.
headerSize == 47
\* Options.TargetSize of the segmented-file runs: the size the log grows to
\* before freed segments are allocated again.
segTargetSize == 60
\* The value that stands for a wrapped uint32: a uint32 subtraction that
\* underflows yields 2^32 - (b - a), which is beyond the integers of the model
\* checker and larger than every size of the model; it is kept as this value.
WrappedUint32 == 2147483647

\* a - b in uint32 arithmetic.
Uint32Sub(a, b) == IF a >= b THEN a - b ELSE WrappedUint32

\* The sizes requested from allocate: logs of one and of two records.
AllocSizes == {33, 38}

Segment(offset, size) == [offset |-> offset, size |-> size]

\* newSegments: segments 0 and 1 empty at headerSize, segment 2 the zero value.
newSegments == <<Segment(headerSize, 0), Segment(headerSize, 0), Segment(0, 0)>>

\* _Segments.currSize
currSize(sg) == sg[2].size

\* A recoveryOffset that steps past segment 0 only.
recoveryOffsetOnce(sg, offset) ==
    IF offset = sg[1].offset THEN offset + sg[1].size ELSE offset

\* _Segments.recoveryOffset
recoveryOffset(sg, offset) ==
    LET o1 == IF offset = sg[1].offset THEN offset + sg[1].size ELSE offset
        o2 == IF o1 = sg[2].offset THEN o1 + sg[2].size ELSE o1
        o3 == IF o2 = sg[3].offset THEN o2 + sg[3].size ELSE o2
    IN o3

\* _Segments.freeSize
freeSize(sg, offset) ==
    IF offset = sg[1].offset THEN sg[1].size
    ELSE IF offset = sg[2].offset THEN sg[2].size
    ELSE IF offset = sg[3].offset THEN sg[3].size
    ELSE 0

\* An allocate that shrinks segment 1 without moving its offset.
SegmentsAllocateNoAdvance(sg, size) ==
    [sg EXCEPT ![2] = Segment(sg[2].offset, Uint32Sub(sg[2].size, size))]

\* _Segments.allocate: the segments after carving size bytes from segment 1.
SegmentsAllocate(sg, size) ==
    [sg EXCEPT ![2] = Segment(sg[2].offset + size, Uint32Sub(sg[2].size, size))]

\* _Segments.free: the segment (1-based) that takes the freed region, 0 for none.
SegmentsFreeInto(sg, offset) ==
    IF sg[1].offset + sg[1].size = offset THEN 1
    ELSE IF sg[2].offset + sg[2].size = offset THEN 2
    ELSE 0

\* _Segments.free: the segments after freeing [offset, offset+size).
SegmentsFree(sg, offset, size) ==
    LET i == SegmentsFreeInto(sg, offset) IN
    IF i = 0 THEN sg
    ELSE [sg EXCEPT ![i] = Segment(sg[i].offset, sg[i].size + size)]

\* _Segments.swap, first step: segment 2 is merged into an adjacent segment 1.
SwapMerges(sg) == sg[2].size # 0 /\ sg[2].offset + sg[2].size = sg[3].offset

SwapMerged(sg) ==
    IF SwapMerges(sg)
    THEN [sg EXCEPT ![2] = Segment(sg[2].offset, sg[2].size + sg[3].size),
                    ![3] = Segment(sg[3].offset, 0)]
    ELSE sg

\* _Segments.swap, second step: the segments rotate when segment 0 outgrew the target.
SwapRotates(sg, targetSize) == targetSize < sg[1].size

SwapRotated(sg, targetSize) ==
    IF SwapRotates(sg, targetSize)
    THEN <<Segment(sg[1].offset, 0), sg[1], sg[2]>>
    ELSE sg

\* _Segments.swap
SegmentsSwap(sg, targetSize) == SwapRotated(SwapMerged(sg), targetSize)

\* An allocate that looks at the target size only.
AllocateExtendsBelowTarget(sg, size, fsz, targetSize) ==
    targetSize > fsz + size

\* _File.allocate extends the file (true) or carves from segment 1 (false).
AllocateExtends(sg, size, fsz, targetSize) ==
    targetSize > fsz + size \/ currSize(sg) < size

\* _File.allocate: the offset returned.
AllocateOffset(sg, size, fsz, targetSize) ==
    IF AllocateExtends(sg, size, fsz, targetSize) THEN fsz ELSE sg[2].offset

Region(off, size) == [off |-> off, size |-> size]

\* _File.allocate
FileAllocate(size) ==
    /\ size > 0
    /\ IF AllocateExtends(segments, size, fsize, segTargetSize)
       THEN /\ extends < MaxExtends
            /\ fsize' = fsize + size
            /\ extends' = extends + 1
            /\ UNCHANGED segments
       ELSE /\ segments' = SegmentsAllocate(segments, size)
            /\ UNCHANGED <<fsize, extends>>
    /\ allocated' = allocated \cup
                      {Region(AllocateOffset(segments, size, fsize, segTargetSize), size)}
    /\ UNCHANGED untracked
    /\ UNCHANGED notSeg

\* _Segments.free of a region that allocate returned.
FileFree(r) ==
    /\ r \in allocated
    /\ segments' = SegmentsFree(segments, r.off, r.size)
    /\ allocated' = allocated \ {r}
    /\ untracked' = IF SegmentsFreeInto(segments, r.off) = 0
                    THEN untracked \cup {r} ELSE untracked
    /\ UNCHANGED <<fsize, extends>>
    /\ UNCHANGED notSeg

\* _Segments.swap; the old segment 2 is no longer tracked once the rotation
\* overwrites it.
FileSwap ==
    /\ segments' = SegmentsSwap(segments, segTargetSize)
    /\ untracked' =
         LET m == SwapMerged(segments) IN
         IF SwapRotates(m, segTargetSize) /\ m[3].size > 0
         THEN untracked \cup {Region(m[3].offset, m[3].size)} ELSE untracked
    /\ UNCHANGED <<fsize, allocated, extends>>
    /\ UNCHANGED notSeg

\* A new log file: the header allocated, the segments fresh.
InitSeg ==
    /\ segments = newSegments
    /\ fsize = headerSize
    /\ allocated = {}
    /\ untracked = {}
    /\ extends = 0

-----------------------------------------------------------------------------
\* Time-mark.

\* One second in nanoseconds: time.Time.Nanosecond() is UnixNano() modulo this.
NanosPerSecond == 1000000000
\* The wall clock of the model starts one second after the epoch.
ClockBase == NanosPerSecond
\* The expiry duration the time-mark is created with, in nanoseconds.
durations == 1

TimeIDs == {ClockBase + i : i \in 1..MaxClock}

TimeRecord(refs, lastUnref) == [refs |-> refs, lastUnref |-> lastUnref]

\* _TimeRecord.isExpired: compares against the sub-second part of the clock.
RecIsExpired(r, expDur) ==
    r.lastUnref > 0 /\ r.lastUnref + expDur <= now % NanosPerSecond

\* _TimeRecord.isReleased
RecIsReleased(r, lastUnref) == r.lastUnref > 0 /\ r.lastUnref < lastUnref

\* _TimeMark.isReleased
isReleased(timeID) ==
    /\ timeID \in DOMAIN releasedRecords
    /\ releasedRecords[timeID].refs # -1
    /\ RecIsReleased(releasedRecords[timeID], timeRecord)

\* _TimeMark.isAborted
isAborted(timeID) ==
    /\ timeID \in DOMAIN releasedRecords
    /\ releasedRecords[timeID].refs = -1

\* The record add() stores: r.refs++ changes the local copy r only, and
\* records[timeID] is then overwritten with a fresh record of one reference.
AddRecord(timeID) == TimeRecord(1, 0)

\* _TimeMark.add
add(timeID) ==
    /\ refCount[timeID] < MaxRefs
    /\ records' = MapPut(records, timeID, AddRecord(timeID))
    /\ refCount' = [refCount EXCEPT ![timeID] = @ + 1]
    /\ UNCHANGED <<releasedRecords, timeRecord, now, everZero, lastAbort, sweep>>
    /\ UNCHANGED notTM

\* _TimeMark.newTimeID: the clock reading becomes the timeID and is added.
newTimeID ==
    /\ now \in TimeIDs
    /\ add(now)

\* _TimeMark.release
release(timeID) ==
    /\ IF timeID \notin DOMAIN records
       THEN UNCHANGED <<records, releasedRecords>>
       ELSE LET refs == records[timeID].refs - 1 IN
            IF refs > 0
            THEN /\ records' = MapPut(records, timeID,
                                      TimeRecord(refs, records[timeID].lastUnref))
                 /\ UNCHANGED releasedRecords
            ELSE /\ records' = MapDel(records, timeID)
                 /\ releasedRecords' = MapPut(releasedRecords, timeID,
                                              TimeRecord(refs, timeRecord))
    /\ refCount' = [refCount EXCEPT ![timeID] = IF @ > 0 THEN @ - 1 ELSE 0]
    /\ everZero' = IF refCount[timeID] = 1 THEN everZero \cup {timeID} ELSE everZero
    /\ UNCHANGED <<timeRecord, now, lastAbort, sweep>>
    /\ UNCHANGED notTM

\* A record that abort would store with no references instead of the sentinel.
AbortRecordNoSentinel(timeID) == TimeRecord(0, timeRecord)

\* The record abort() stores: the sentinel -1, stamped with the time record.
AbortRecord(timeID) == TimeRecord(-1, timeRecord)

\* What timeID is to the time-mark: live, released (or aborted), or unknown.
KnownAs(timeID) ==
    IF timeID \in DOMAIN records THEN "live"
    ELSE IF timeID \in DOMAIN releasedRecords THEN "released"
    ELSE "unknown"

\* _TimeMark.abort
abort(timeID) ==
    /\ records' = IF timeID \in DOMAIN records THEN MapDel(records, timeID) ELSE records
    /\ releasedRecords' = MapPut(releasedRecords, timeID, AbortRecord(timeID))
    /\ refCount' = [refCount EXCEPT ![timeID] = 0]
    /\ everZero' = everZero \cup {timeID}
    /\ lastAbort' = [tid |-> timeID, from |-> KnownAs(timeID)]
    /\ UNCHANGED sweep
    /\ UNCHANGED <<timeRecord, now>>
    /\ UNCHANGED notTM

\* _TimeMark.newTimeRecord
newTimeRecord ==
    /\ timeRecord' = now
    /\ UNCHANGED <<records, releasedRecords, now, refCount, everZero, lastAbort, sweep>>
    /\ UNCHANGED notTM

\* An entry is due when its lastUnref plus the duration is not later than the
\* wall clock in nanoseconds since the epoch.
Due(r) == r.lastUnref + durations <= now

\* The timeIDs startExpirer evicts in the current state.
Expired == {t \in DOMAIN releasedRecords : RecIsExpired(releasedRecords[t], durations)}

\* _TimeMark.startExpirer
startExpirer ==
    /\ releasedRecords' = [t \in DOMAIN releasedRecords \ Expired |-> releasedRecords[t]]
    /\ sweep' = [kept |-> {t \in DOMAIN releasedRecords \ Expired : Due(releasedRecords[t])},
                 lost |-> {t \in Expired : ~Due(releasedRecords[t])}]
    /\ UNCHANGED <<records, timeRecord, now, refCount, everZero, lastAbort>>
    /\ UNCHANGED notTM

\* The wall clock advances.
Tick ==
    /\ now < ClockBase + MaxClock
    /\ now' = now + 1
    /\ UNCHANGED <<records, releasedRecords, timeRecord, refCount, everZero, lastAbort, sweep>>
    /\ UNCHANGED notTM

\* newTimeMark: empty maps, the time record stamped with the clock.
InitTM ==
    /\ records = EmptyMap
    /\ releasedRecords = EmptyMap
    /\ now = ClockBase + 1
    /\ timeRecord = now
    /\ refCount = [t \in TimeIDs |-> 0]
    /\ everZero = {}
    /\ lastAbort = [tid |-> 0, from |-> "none"]
    /\ sweep = [kept |-> {}, lost |-> {}]

NextTM ==
    \/ \E t \in TimeIDs : add(t)
    \/ newTimeID
    \/ \E t \in TimeIDs : release(t)
    \/ \E t \in TimeIDs : abort(t)
    \/ newTimeRecord
    \/ startExpirer
    \/ Tick

-----------------------------------------------------------------------------
\* Write-ahead log: the bytes on disk.

\* Byte i (from 0) of the little-endian encoding of v; the values of the model
\* are below 2^32, so the bytes from the fifth on are zero.
ByteOf(v, i) ==
    IF i = 0 THEN v % 256
    ELSE IF i = 1 THEN (v \div 256) % 256
    ELSE IF i = 2 THEN (v \div 65536) % 256
    ELSE IF i = 3 THEN (v \div 16777216) % 256
    ELSE 0

\* binary.LittleEndian.PutUint16/32/64 into n bytes.
PutUint(v, n) == [i \in 1..n |-> ByteOf(v, i - 1)]

\* binary.LittleEndian.Uint16/32/64 of a byte slice.
Uint(b) ==
    b[1] + 256 * b[2]
      + (IF Len(b) >= 4 THEN 65536 * b[3] + 16777216 * b[4] ELSE 0)

\* The Go slice s[a:b].
Slice(s, a, b) == SubSeq(s, a + 1, b)

\* os.File.WriteAt: the file after writing bytes at offset off; a write past
\* the end leaves a hole of zero bytes.
writeAt(f, bytes, off) ==
    LET n == IF Len(f) >= off + Len(bytes) THEN Len(f) ELSE off + Len(bytes) IN
    [i \in 1..n |-> IF i > off /\ i <= off + Len(bytes) THEN bytes[i - off]
                    ELSE IF i <= Len(f) THEN f[i] ELSE 0]

\* _File.readAt fills a buffer of sz bytes from offset off; a short read is io.EOF.
readAtOk(f, off, sz) == off + sz <= Len(f)

readAt(f, off, sz) == Slice(f, off, off + sz)

\* The size of a marshalled _LogInfo.
logHeaderSize == 28

\* Options.TargetSize of the log: below it every allocation extends the file.
walTargetSize == 256

\* LogStatus and the log version.
logStatusWritten == 0
logStatusApplied == 1
logStatusReleased == 2
logVersion == 1

LogInfo(version, status, timeID, entryCount, sz, off) ==
    [version |-> version, status |-> status, timeID |-> timeID,
     entryCount |-> entryCount, size |-> sz, offset |-> off]

\* _LogInfo.MarshalBinary
LogInfoMarshal(l) ==
    PutUint(l.version, 2) \o PutUint(l.status, 2) \o PutUint(l.timeID, 8)
      \o PutUint(l.entryCount, 4) \o PutUint(l.size, 4) \o PutUint(l.offset, 8)

\* A decoder that takes the status from the version field.
LogInfoUnmarshalStatusFromVersion(data) ==
    LogInfo(Uint(Slice(data, 0, 2)), Uint(Slice(data, 0, 2)), Uint(Slice(data, 4, 12)),
            Uint(Slice(data, 12, 16)), Uint(Slice(data, 16, 20)), Uint(Slice(data, 20, 28)))

\* _LogInfo.UnmarshalBinary
LogInfoUnmarshal(data) ==
    LogInfo(Uint(Slice(data, 0, 2)), Uint(Slice(data, 2, 4)), Uint(Slice(data, 4, 12)),
            Uint(Slice(data, 12, 16)), Uint(Slice(data, 16, 20)), Uint(Slice(data, 20, 28)))

\* The file signature and version.
signature == <<117, 110, 105, 116, 100, 98, 254>>

\* _Header.MarshalBinary
HeaderMarshal(sg) ==
    signature \o PutUint(logVersion, 4)
      \o PutUint(sg[1].size, 4) \o PutUint(sg[1].offset, 8)
      \o PutUint(sg[2].size, 4) \o PutUint(sg[2].offset, 8)
      \o PutUint(sg[3].size, 4) \o PutUint(sg[3].offset, 8)

\* The segments of the log: the log of the model frees no region, so they stay
\* as newSegments made them.
walSegments == newSegments

\* The entries written to the log: the records of a memdb block.
PutEntry(key, val) == [del |-> 0, key |-> key, val |-> val]
DelEntry(key, timeID) == [del |-> 1, key |-> key, val |-> PutUint(timeID, 8)]

\* The keys of the model.
Keys == {1}

Entries == {PutEntry(k, <<7>>) : k \in Keys} \cup {DelEntry(k, 1) : k \in Keys}

\* _Block.put: the record without its length, as tinyWrite hands it to Append:
\* the delete flag, the key, the data.
EntryBytes(e) == <<e.del>> \o PutUint(e.key, 8) \o e.val

\* Writer.Append: the payload prefixed with its length (the four bytes of the
\* length included).
Frame(p) == PutUint(Len(p) + 4, 4) \o p

RECURSIVE Body(_)
\* The body of a group: the framed payloads of its entries.
Body(es) == IF es = <<>> THEN <<>> ELSE Frame(EntryBytes(Head(es))) \o Body(Tail(es))

Payloads(es) == [i \in 1..Len(es) |-> EntryBytes(es[i])]

RECURSIVE recoverLogHeaders(_, _)
\* WAL.recoverLogHeaders: the chain of log headers from offset off; the chain
\* ends at the end of the file or at a header that was never written.
recoverLogHeaders(f, off) ==
    LET o == recoveryOffset(walSegments, off) IN
    IF o + logHeaderSize > Len(f) THEN <<>>
    ELSE LET l == LogInfoUnmarshal(Slice(f, o, o + logHeaderSize)) IN
         IF l.version # logVersion \/ l.offset # o \/ o + l.size > Len(f) THEN <<>>
         ELSE <<l>> \o recoverLogHeaders(f, l.offset + l.size)

\* The end of the last complete group.
logEnd(logs) ==
    IF logs = <<>> THEN headerSize ELSE logs[Len(logs)].offset + logs[Len(logs)].size

\* The groups the file holds.
DiskLogs == recoverLogHeaders(file, headerSize)

\* wal.New's needRecovery.
NeedRecovery(logs) == \E i \in 1..Len(logs) : logs[i].status = logStatusWritten

-----------------------------------------------------------------------------
\* Write-ahead log: Reader.Next and the callbacks.

\* Reader.Next on the log data from r.offset = roff; spare is what the buffer
\* holds behind the log data (the capacity of the slice).
Next(data, spare, roff) ==
    LET logData == Slice(data, roff, Len(data))
        avail == logData \o spare
    IN
    IF Len(avail) < 4 THEN [kind |-> "panic"]
    ELSE LET dataLen == Uint(Slice(avail, 0, 4)) IN
         IF Len(logData) < dataLen THEN [kind |-> "err"]
         ELSE IF dataLen < 4 THEN [kind |-> "panic"]
         ELSE [kind |-> "ok", data |-> Slice(logData, 4, dataLen), len |-> dataLen]

RECURSIVE DrainCallback(_, _, _, _, _)
\* The callback of the log's own tests: Next until it is done or fails, then
\* (false, nil).  got is what Next returned, end how the iteration ended.
DrainCallback(data, spare, roff, count, got) ==
    IF count = 0 THEN [got |-> got, end |-> "done"]
    ELSE LET o == Next(data, spare, roff) IN
         IF o.kind # "ok" THEN [got |-> got, end |-> o.kind]
         ELSE DrainCallback(data, spare, roff + o.len, count - 1, Append(got, o.data))

\* startRecover's callback on one record: a delete removes the key from the
\* map, a put sets it.
Ingest(lg, logData) ==
    LET dBit == logData[1]
        key == Uint(Slice(logData, 1, 9))
        val == Slice(logData, 9, Len(logData))
    IN IF dBit = 1 THEN MapDel(lg, key) ELSE MapPut(lg, key, val)

RECURSIVE RecoverCallback(_, _, _, _, _, _)
\* startRecover's callback: Count() records are read and ingested into the map;
\* a failing Next returns the error, a record shorter than its key panics.
RecoverCallback(data, spare, roff, count, got, lg) ==
    IF count = 0 THEN [got |-> got, end |-> "done", log |-> lg]
    ELSE LET o == Next(data, spare, roff) IN
         IF o.kind # "ok" THEN [got |-> got, end |-> o.kind, log |-> lg]
         ELSE IF Len(o.data) < 9
              THEN [got |-> Append(got, o.data), end |-> "panic", log |-> lg]
              ELSE RecoverCallback(data, spare, roff + o.len, count - 1,
                                   Append(got, o.data), Ingest(lg, o.data))

\* The callback Read is given, on the group ul at position off of the buffer.
Callback(ul, off) ==
    LET data == Slice(buffer, off + logHeaderSize, off + ul.size)
        spare == Slice(buffer, off + ul.size, Len(buffer))
    IN IF cb = "recover"
       THEN RecoverCallback(data, spare, 0, ul.entryCount, <<>>, log)
       ELSE [got |-> DrainCallback(data, spare, 0, ul.entryCount, <<>>).got,
             end |-> DrainCallback(data, spare, 0, ul.entryCount, <<>>).end,
             log |-> log]

-----------------------------------------------------------------------------
\* Write-ahead log: the operations.

Callbacks == {"drain", "recover"}

\* The buffer sizes the log is opened with: one smaller than a two-record group,
\* and the one of the log's tests.
BufferSizes == {60, 256}

\* The history of a group.
Group(timeID, recs, st) == [timeID |-> timeID, recs |-> recs, st |-> st]

SetSt(h, ids, st) ==
    [i \in 1..Len(h) |-> IF h[i].timeID \in ids THEN [h[i] EXCEPT !.st = st] ELSE h[i]]

WrittenIdx(h) == {i \in 1..Len(h) : h[i].st = "written"}

\* The memory of the process is lost.
MemoryLost ==
    /\ needRecovery' = FALSE
    /\ recoveredLogs' = <<>>
    /\ wrecs' = <<>>
    /\ idx' = 0
    /\ bufOff' = 0
    /\ fileOff' = 0
    /\ bufSize' = 0
    /\ buffer' = <<>>
    /\ log' = EmptyMap
    /\ memdb' = EmptyMap

ReaderIdle ==
    /\ idx' = 0
    /\ bufOff' = 0
    /\ fileOff' = 0
    /\ bufSize' = 0
    /\ buffer' = <<>>

\* wal.New: a new file gets its header; the headers of the groups are recovered,
\* a tail that holds no complete group is dropped, and needRecovery is reported.
\* In startRecover the groups found WRITTEN are owed to the memdb.
Open ==
    /\ pc = "closed"
    /\ LET f == IF Len(file) = 0 THEN HeaderMarshal(walSegments) ELSE file
           logs == recoverLogHeaders(f, headerSize)
       IN /\ file' = Slice(f, 0, logEnd(logs))
          /\ recoveredLogs' = logs
          /\ needRecovery' = NeedRecovery(logs)
    /\ pc' = "opened"
    /\ readErr' = "none"
    /\ delivered' = <<>>
    /\ owed' = IF cb = "recover" THEN owed \cup WrittenIdx(hist) ELSE owed
    /\ cleanStart' = /\ cb = "recover"
                     /\ owed = {}
                     /\ WrittenIdx(hist) # {}
                     /\ \A i \in 1..Len(hist) : hist[i].st \in {"written", "reset"}
    /\ UNCHANGED <<cb, BufferSize, wrecs, nextTimeID, readerVars, log, memdb, hist,
                   torn, drained>>
    /\ UNCHANGED notWal

\* The log is not read: the tests' sessions that only write, and startRecover
\* when there is nothing to recover.
NoRead ==
    /\ pc = "opened"
    /\ cb = "recover" => ~needRecovery
    /\ pc' = IF cb = "recover" THEN "recovered" ELSE "run"
    /\ UNCHANGED <<file, cb, BufferSize, needRecovery, recoveredLogs, wrecs, nextTimeID,
                   readerVars, readErr, log, memdb, hist, torn, delivered, drained,
                   owed, cleanStart>>
    /\ UNCHANGED notWal

\* Writer.Append
WriterAppend(e) ==
    /\ pc = "run"
    /\ Len(wrecs) < MaxAppend
    /\ wrecs' = Append(wrecs, e)
    /\ UNCHANGED <<file, pc, cb, BufferSize, needRecovery, recoveredLogs, nextTimeID,
                   readerVars, readErr, log, memdb, hist, torn, delivered, drained,
                   owed, cleanStart>>
    /\ UNCHANGED notWal

\* Writer.SignalInitWrite: a region for header and body is allocated, the body
\* is written, then the header with status WRITTEN.
SignalInitWrite ==
    /\ pc = "run"
    /\ wrecs # <<>>
    /\ Len(hist) < MaxGroups
    /\ LET body == Body(wrecs)
           sz == logHeaderSize + Len(body)
           off == AllocateOffset(walSegments, sz, Len(file), walTargetSize)
           l == LogInfo(logVersion, logStatusWritten, nextTimeID, Len(wrecs), sz, off)
       IN file' = writeAt(writeAt(file, body, off + logHeaderSize), LogInfoMarshal(l), off)
    /\ hist' = Append(hist, Group(nextTimeID, wrecs, "written"))
    /\ nextTimeID' = nextTimeID + 1
    /\ wrecs' = <<>>
    /\ drained' = "no"
    /\ UNCHANGED <<pc, cb, BufferSize, needRecovery, recoveredLogs, readerVars, readErr,
                   log, memdb, torn, delivered, owed, cleanStart>>
    /\ UNCHANGED notWal

\* Writer.SignalInitWrite cut by a crash before the header is written: the
\* first n bytes of the body have reached the file.
TornWrite(n) ==
    /\ pc = "run"
    /\ wrecs # <<>>
    /\ Cardinality(torn) < MaxTorn
    /\ n <= Len(Body(wrecs))
    /\ LET body == Body(wrecs)
           sz == logHeaderSize + Len(body)
           off == AllocateOffset(walSegments, sz, Len(file), walTargetSize)
       IN file' = writeAt(file, Slice(body, 0, n), off + logHeaderSize)
    /\ torn' = torn \cup {nextTimeID}
    /\ nextTimeID' = nextTimeID + 1
    /\ pc' = "closed"
    /\ MemoryLost
    /\ drained' = "no"
    /\ owed' = {}
    /\ cleanStart' = FALSE
    /\ UNCHANGED <<cb, BufferSize, readErr, hist, delivered>>
    /\ UNCHANGED notWal

\* How much of the body a cut write has written: nothing, or the first record.
TornSizes == {0, 14}

\* The header SignalLogApplied writes.
AppliedLog(ul) == [ul EXCEPT !.status = logStatusApplied]

\* WAL.SignalLogApplied: the group with the timeID is marked APPLIED in place.
SignalLogApplied(timeID) ==
    /\ pc = "run"
    /\ \E i \in 1..Len(DiskLogs) :
         /\ DiskLogs[i].timeID = timeID
         /\ DiskLogs[i].status = logStatusWritten
         /\ file' = writeAt(file, LogInfoMarshal(AppliedLog(DiskLogs[i])), DiskLogs[i].offset)
    /\ hist' = SetSt(hist, {timeID}, "applied")
    /\ UNCHANGED <<pc, cb, BufferSize, needRecovery, recoveredLogs, wrecs, nextTimeID,
                   readerVars, readErr, log, memdb, torn, delivered, drained, owed,
                   cleanStart>>
    /\ UNCHANGED notWal

RECURSIVE RemoveReleased(_)
\* Reader.Read, "release log before read": the RELEASED logs leave recoveredLogs.
RemoveReleased(logs) ==
    IF logs = <<>> THEN <<>>
    ELSE IF Head(logs).status = logStatusReleased THEN RemoveReleased(Tail(logs))
    ELSE <<Head(logs)>> \o RemoveReleased(Tail(logs))

\* Reader.Read: the first buffer size.
FirstSize(rest) == IF rest > BufferSize THEN BufferSize ELSE rest

\* Where Read's return leaves the process: the tests go on, startRecover resets the log.
AfterRead == IF cb = "recover" THEN "readDone" ELSE "run"

\* Reader.Read returns: the deferred function empties recoveredLogs.
ReadReturns(err) ==
    /\ recoveredLogs' = <<>>
    /\ readErr' = err
    /\ pc' = AfterRead
    /\ drained' = IF err = "nil" /\ cb = "drain" THEN "now" ELSE "no"
    /\ ReaderIdle

\* Reader.Read fills the buffer with sz bytes from off and goes on with the
\* group at index i, or returns the error of the read.
ReadFills(logs, i, off, sz) ==
    IF readAtOk(file, off, sz)
    THEN /\ recoveredLogs' = logs
         /\ idx' = i
         /\ bufOff' = 0
         /\ fileOff' = off
         /\ bufSize' = sz
         /\ buffer' = readAt(file, off, sz)
         /\ pc' = "reading"
         /\ UNCHANGED <<readErr, drained>>
    ELSE ReadReturns("err")

\* Reader.Read up to the first fill of the buffer.
ReadBegin ==
    /\ pc = "opened"
    /\ cb = "recover" => needRecovery
    /\ LET logs == RemoveReleased(recoveredLogs) IN
       IF Len(logs) = 0
       THEN ReadReturns("nil")
       ELSE ReadFills(logs, 0, logs[1].offset, FirstSize(Len(file) - logs[1].offset))
    /\ UNCHANGED <<file, cb, BufferSize, needRecovery, wrecs, nextTimeID, log, memdb,
                   hist, torn, delivered, owed, cleanStart>>
    /\ UNCHANGED notWal

\* Reader.Read skips a log that is empty or not WRITTEN.
SkipLogAny(ul) == ul.entryCount = 0

SkipLog(ul) == ul.entryCount = 0 \/ ul.status # logStatusWritten

\* The header Read writes after the callback accepted the group.
KeptLog(ul) == ul

ReleasedLog(ul) == [ul EXCEPT !.status = logStatusReleased]

\* Reader.Read after a log is skipped or released: the position in the buffer
\* moves behind the log; behind the last log Read writes the header and returns nil.
ReadAdvances(ul) ==
    IF idx + 1 = Len(recoveredLogs)
    THEN ReadReturns("nil")
    ELSE /\ idx' = idx + 1
         /\ bufOff' = bufOff + ul.size + freeSize(walSegments, ul.offset + ul.size)
         /\ UNCHANGED <<recoveredLogs, fileOff, bufSize, buffer, pc, readErr, drained>>

\* Reader.Read on the log at idx: it is skipped, or the buffer is filled again
\* because the log is larger than the buffer or than what the buffer holds
\* behind offset, or it is handed to the callback and then marked RELEASED.
ReadLog ==
    /\ pc = "reading"
    /\ LET ul == recoveredLogs[idx + 1] IN
       IF SkipLog(ul)
       THEN /\ ReadAdvances(ul)
            /\ UNCHANGED <<file, log, hist, delivered, needRecovery, wrecs, memdb, owed,
                           cleanStart>>
       ELSE IF bufSize < ul.size
       THEN /\ ReadFills(recoveredLogs, idx, fileOff, ul.size)
            /\ UNCHANGED <<file, log, hist, delivered, needRecovery, wrecs, memdb, owed,
                           cleanStart>>
       ELSE IF bufSize - bufOff < ul.size
       THEN /\ ReadFills(recoveredLogs, idx, ul.offset, Len(file) - ul.offset)
            /\ UNCHANGED <<file, log, hist, delivered, needRecovery, wrecs, memdb, owed,
                           cleanStart>>
       ELSE LET r == Callback(ul, bufOff) IN
            /\ delivered' = Append(delivered, [timeID |-> ul.timeID, got |-> r.got,
                                               end |-> r.end])
            /\ IF r.end = "panic"
               THEN /\ pc' = "closed"
                    /\ readErr' = "panic"
                    /\ drained' = "no"
                    /\ MemoryLost
                    /\ cleanStart' = FALSE
                    /\ UNCHANGED <<file, hist, owed>>
               ELSE IF r.end = "err" /\ cb = "recover"
               THEN /\ ReadReturns("err")
                    /\ log' = r.log
                    /\ UNCHANGED <<file, hist, needRecovery, wrecs, memdb, owed, cleanStart>>
               ELSE /\ file' = writeAt(file, LogInfoMarshal(ReleasedLog(ul)), ul.offset)
                    /\ hist' = SetSt(hist, {ul.timeID}, "released")
                    /\ log' = r.log
                    /\ ReadAdvances(ul)
                    /\ UNCHANGED <<needRecovery, wrecs, memdb, owed, cleanStart>>
    /\ UNCHANGED <<cb, BufferSize, nextTimeID, torn>>
    /\ UNCHANGED notWal

\* WAL.Reset in startRecover, whatever Read returned: the log is truncated to empty.
WalReset ==
    /\ pc = "readDone"
    /\ file' = HeaderMarshal(walSegments)
    /\ hist' = SetSt(hist, {hist[i].timeID : i \in 1..Len(hist)}, "reset")
    /\ pc' = "afterReset"
    /\ UNCHANGED <<cb, BufferSize, needRecovery, recoveredLogs, wrecs, nextTimeID,
                   readerVars, readErr, log, memdb, torn, delivered, drained, owed,
                   cleanStart>>
    /\ UNCHANGED notWal

\* startRecover's loop over the map: one key is put into the memdb.
RecoverPut(k) ==
    /\ pc = "afterReset"
    /\ k \in DOMAIN log
    /\ memdb' = MapPut(memdb, k, log[k])
    /\ log' = MapDel(log, k)
    /\ UNCHANGED <<file, pc, cb, BufferSize, needRecovery, recoveredLogs, wrecs,
                   nextTimeID, readerVars, readErr, hist, torn, delivered, drained, owed,
                   cleanStart>>
    /\ UNCHANGED notWal

\* startRecover returns once the map is put.
RecoverReturn ==
    /\ pc = "afterReset"
    /\ DOMAIN log = {}
    /\ pc' = "recovered"
    /\ UNCHANGED <<file, cb, BufferSize, needRecovery, recoveredLogs, wrecs, nextTimeID,
                   readerVars, readErr, log, memdb, hist, torn, delivered, drained, owed,
                   cleanStart>>
    /\ UNCHANGED notWal

\* The recovered database goes into service; nothing is owed any more.
Resume ==
    /\ pc = "recovered"
    /\ pc' = "run"
    /\ owed' = {}
    /\ cleanStart' = FALSE
    /\ UNCHANGED <<file, cb, BufferSize, needRecovery, recoveredLogs, wrecs, nextTimeID,
                   readerVars, readErr, log, memdb, hist, torn, delivered, drained>>
    /\ UNCHANGED notWal

\* The process closes the log or crashes: the file stays, the memory is lost.
\* What a startRecover owed when it was cut is still owed.
Crash ==
    /\ pc \notin {"closed"}
    /\ pc' = "closed"
    /\ MemoryLost
    /\ drained' = IF drained = "now" THEN "before" ELSE "no"
    /\ delivered' = <<>>
    /\ owed' = IF pc \in {"recovered", "run"} THEN {} ELSE owed
    /\ cleanStart' = FALSE
    /\ UNCHANGED <<file, cb, BufferSize, nextTimeID, readErr, hist, torn>>
    /\ UNCHANGED notWal

\* No log file yet, the process not started.
InitWal ==
    /\ file = <<>>
    /\ pc = "closed"
    /\ cb \in Callbacks
    /\ BufferSize \in BufferSizes
    /\ needRecovery = FALSE
    /\ recoveredLogs = <<>>
    /\ wrecs = <<>>
    /\ nextTimeID = 1
    /\ idx = 0
    /\ bufOff = 0
    /\ fileOff = 0
    /\ bufSize = 0
    /\ buffer = <<>>
    /\ readErr = "none"
    /\ log = EmptyMap
    /\ memdb = EmptyMap
    /\ hist = <<>>
    /\ torn = {}
    /\ delivered = <<>>
    /\ drained = "no"
    /\ owed = {}
    /\ cleanStart = FALSE

NextWal ==
    \/ Open
    \/ NoRead
    \/ \E e \in Entries : WriterAppend(e)
    \/ SignalInitWrite
    \/ \E n \in TornSizes : TornWrite(n)
    \/ \E t \in 1..(MaxGroups + MaxTorn) : SignalLogApplied(t)
    \/ ReadBegin
    \/ ReadLog
    \/ WalReset
    \/ \E k \in Keys : RecoverPut(k)
    \/ RecoverReturn
    \/ Resume
    \/ Crash

-----------------------------------------------------------------------------
\* Write-ahead log: Readers that run Read concurrently.

ReaderIDs == 1..MaxReaders

\* wal.New has found n groups, all WRITTEN.
LogsFound(n) ==
    /\ sharedLogs = <<>>
    /\ handed = <<>>
    /\ \A r \in ReaderIDs : readers[r].pc = "idle"
    /\ sharedLogs' = [j \in 1..n |-> [timeID |-> j, status |-> logStatusWritten]]
    /\ UNCHANGED <<readers, handed, outOfRange>>
    /\ UNCHANGED notRdr

\* Reader.Read, "release log before read", without a lock: the RELEASED logs
\* leave recoveredLogs.
ReadPrune(r) ==
    /\ readers[r].pc = "idle"
    /\ sharedLogs # <<>>
    /\ sharedLogs' = SelectSeq(sharedLogs, LAMBDA ul : ul.status # logStatusReleased)
    /\ readers' = [readers EXCEPT ![r].pc = "pruned"]
    /\ UNCHANGED <<handed, outOfRange>>
    /\ UNCHANGED notRdr

\* Reader.Read: wal.mu.RLock(), which Readers share; the length is read, and
\* with no log Read returns through its deferred function.
ReadRLock(r) ==
    /\ readers[r].pc = "pruned"
    /\ IF Len(sharedLogs) = 0
       THEN /\ readers' = [readers EXCEPT ![r] = [pc |-> "done", l |-> 0, i |-> 0]]
            /\ sharedLogs' = <<>>
       ELSE /\ readers' = [readers EXCEPT ![r] = [pc |-> "loop", l |-> Len(sharedLogs),
                                                  i |-> 0]]
            /\ UNCHANGED sharedLogs
    /\ UNCHANGED <<handed, outOfRange>>
    /\ UNCHANGED notRdr

\* Reader.Read, the loop: behind the last log Read returns and its deferred
\* function empties recoveredLogs; otherwise recoveredLogs[i] is read, which
\* panics beyond the length; a log that is not WRITTEN is skipped, a WRITTEN
\* one is handed to the callback.
ReadVisit(r) ==
    /\ readers[r].pc = "loop"
    /\ LET i == readers[r].i IN
       IF i = readers[r].l
       THEN /\ readers' = [readers EXCEPT ![r].pc = "done"]
            /\ sharedLogs' = <<>>
            /\ UNCHANGED <<handed, outOfRange>>
       ELSE IF i >= Len(sharedLogs)
       THEN /\ readers' = [readers EXCEPT ![r].pc = "panic"]
            /\ sharedLogs' = <<>>
            /\ outOfRange' = TRUE
            /\ UNCHANGED handed
       ELSE IF sharedLogs[i + 1].status # logStatusWritten
       THEN /\ readers' = [readers EXCEPT ![r].i = i + 1]
            /\ UNCHANGED <<sharedLogs, handed, outOfRange>>
       ELSE /\ readers' = [readers EXCEPT ![r].pc = "called"]
            /\ handed' = Append(handed, sharedLogs[i + 1].timeID)
            /\ UNCHANGED <<sharedLogs, outOfRange>>
    /\ UNCHANGED notRdr

\* Reader.Read after the callback returned (false, nil):
\* recoveredLogs[i].status = logStatusReleased, which panics beyond the length.
ReadMark(r) ==
    /\ readers[r].pc = "called"
    /\ LET i == readers[r].i IN
       IF i >= Len(sharedLogs)
       THEN /\ readers' = [readers EXCEPT ![r].pc = "panic"]
            /\ sharedLogs' = <<>>
            /\ outOfRange' = TRUE
       ELSE /\ readers' = [readers EXCEPT ![r] = [pc |-> "loop", l |-> @.l, i |-> i + 1]]
            /\ sharedLogs' = [sharedLogs EXCEPT ![i + 1].status = logStatusReleased]
            /\ UNCHANGED outOfRange
    /\ UNCHANGED handed
    /\ UNCHANGED notRdr

InitReaders ==
    /\ sharedLogs = <<>>
    /\ readers = [r \in ReaderIDs |-> [pc |-> "idle", l |-> 0, i |-> 0]]
    /\ handed = <<>>
    /\ outOfRange = FALSE

NextReaders ==
    \/ \E n \in 1..MaxGroups : LogsFound(n)
    \/ \E r \in ReaderIDs : ReadPrune(r)
    \/ \E r \in ReaderIDs : ReadRLock(r)
    \/ \E r \in ReaderIDs : ReadVisit(r)
    \/ \E r \in ReaderIDs : ReadMark(r)

-----------------------------------------------------------------------------
\* Memdb: tiny-batches, the time locks, delete and the tiny-batch loop.

\* The number of locks of the time-lock array.
nLocks == 2

\* _TimeLock.getTimeLock: the timeID is hashed to one lock of the array.
getTimeLock(timeID) == timeID % nLocks

LockIDs == {getTimeLock(t) : t \in TimeIDs}

\* iKey: the internal key carries the deleted flag.
iKey(delFlag, k) == [delFlag |-> IF delFlag THEN 1 ELSE 0, key |-> k]

\* A tiny-batch: its timeID and its entry count.
TinyBatchOf(timeID) == [ID |-> timeID, count |-> 0, managed |-> FALSE]

\* _TinyBatch.incount
incount(tb) == [tb EXCEPT !.count = @ + 1]

\* The time-mark after add(timeID), as the memdb operations leave it.
TimeMarkAdded(timeID) ==
    /\ records' = MapPut(records, timeID, AddRecord(timeID))
    /\ refCount' = [refCount EXCEPT ![timeID] = @ + 1]
    /\ UNCHANGED <<releasedRecords, timeRecord, now, everZero, lastAbort, sweep>>

\* Whether tinyBatchLoop has handed the tiny-batch of timeID to the pool.
Dispatched(timeID) == \E i \in 1..Len(writeQueue) : writeQueue[i].ID = timeID

\* Open: the first tiny-batch is created, the tiny-batch loop started
\* (closeW.Add(1)), and startRecover goes on to its write lock when the log
\* needs recovery.
DBOpen ==
    /\ loop.pc = "off"
    /\ tinyBatch' = TinyBatchOf(now)
    /\ made' = Append(made, [ID |-> now, by |-> "newTinyBatch"])
    /\ loop' = [pc |-> "select", timeID |-> 0]
    /\ TimeMarkAdded(now)
    /\ closeW' = closeW + 1
    /\ \E needLogRecovery \in BOOLEAN :
          recov' = IF needLogRecovery THEN "acquire" ELSE "done"
    /\ UNCHANGED <<writeQueue, blockCache, mu, timeLock, del, appended>>
    /\ UNCHANGED <<writeLockC, holders, batchQueue, writing, worker, closed, closeC,
                   closer, poolStopped, walClosed, outcome, user>>
    /\ UNCHANGED notDB

\* batch(): the new batch's tiny-batch takes the clock reading as its ID.
batch ==
    /\ loop.pc # "off"
    /\ Len(made) < MaxMade
    /\ made' = Append(made, [ID |-> now, by |-> "batch"])
    /\ TimeMarkAdded(now)
    /\ bat' = [ID |-> now, keys |-> {}, state |-> "open"]
    /\ UNCHANGED <<tinyBatch, writeQueue, blockCache, mu, timeLock, del, loop, appended>>
    /\ UNCHANGED <<poolVars, notBatch>>

\* delete: db.mu.Lock(), then the timeID of the current tiny-batch is read.
DeleteLock(key) ==
    /\ loop.pc # "off"
    /\ del.pc = "idle"
    /\ Len(appended) < MaxDeletes
    /\ mu = "free"
    /\ mu' = "delete"
    /\ del' = [pc |-> "locked", timeID |-> tinyBatch.ID, key |-> key]
    /\ UNCHANGED <<tinyBatch, made, writeQueue, blockCache, timeLock, loop, appended>>
    /\ UNCHANGED <<tmVars, poolVars, notDB>>

\* delete: timeLock.Lock() of the lock of that timeID, db.mu still held.
DeleteTimeLock ==
    /\ del.pc = "locked"
    /\ timeLock[getTimeLock(del.timeID)] = "free"
    /\ timeLock' = [timeLock EXCEPT ![getTimeLock(del.timeID)] = "delete"]
    /\ del' = [del EXCEPT !.pc = "held"]
    /\ UNCHANGED <<tinyBatch, made, writeQueue, blockCache, mu, loop, appended>>
    /\ UNCHANGED <<tmVars, poolVars, notDB>>

\* delete: the block of the timeID is looked up or created, db.mu.Unlock().
DeleteBlock ==
    /\ del.pc = "held"
    /\ blockCache' = IF del.timeID \in DOMAIN blockCache THEN blockCache
                     ELSE MapPut(blockCache, del.timeID, {})
    /\ mu' = "free"
    /\ del' = [del EXCEPT !.pc = "put"]
    /\ UNCHANGED <<tinyBatch, made, writeQueue, timeLock, loop, appended>>
    /\ UNCHANGED <<tmVars, poolVars, notDB>>

\* delete: block.put, db.internal.tinyBatch.incount(), timeLock.Unlock().
DeletePut ==
    /\ del.pc = "put"
    /\ blockCache' = [blockCache EXCEPT ![del.timeID] = @ \cup {iKey(TRUE, del.key)}]
    /\ tinyBatch' = incount(tinyBatch)
    /\ appended' = Append(appended, [block |-> del.timeID, counted |-> tinyBatch.ID,
                                     late |-> Dispatched(del.timeID)])
    /\ timeLock' = [timeLock EXCEPT ![getTimeLock(del.timeID)] = "free"]
    /\ del' = [pc |-> "idle", timeID |-> 0, key |-> 0]
    /\ UNCHANGED <<made, writeQueue, mu, loop>>
    /\ UNCHANGED <<tmVars, poolVars, notDB>>

\* tinyBatchLoop, on a tick: db.mu.RLock(), the current timeID is read.
LoopRLock ==
    /\ loop.pc = "select"
    /\ now > tinyBatch.ID
    /\ mu = "free"
    /\ mu' = "loop"
    /\ loop' = [pc |-> "rlocked", timeID |-> tinyBatch.ID]
    /\ UNCHANGED <<tinyBatch, made, writeQueue, blockCache, timeLock, del, appended>>
    /\ UNCHANGED <<tmVars, poolVars, notDB>>

\* tinyBatchLoop: timeLock.RLock() of that timeID, db.mu.RUnlock().
LoopTimeRLock ==
    /\ loop.pc = "rlocked"
    /\ timeLock[getTimeLock(loop.timeID)] = "free"
    /\ timeLock' = [timeLock EXCEPT ![getTimeLock(loop.timeID)] = "loop"]
    /\ mu' = "free"
    /\ loop' = [loop EXCEPT !.pc = "rheld"]
    /\ UNCHANGED <<tinyBatch, made, writeQueue, blockCache, del, appended>>
    /\ UNCHANGED <<tmVars, poolVars, notDB>>

\* tinyBatchLoop: a non-empty tiny-batch goes to the pool, a new tiny-batch
\* replaces it, timeLock.RUnlock().
LoopDispatch ==
    /\ loop.pc = "rheld"
    /\ writeQueue' = IF tinyBatch.count # 0 THEN Append(writeQueue, tinyBatch)
                     ELSE writeQueue
    /\ tinyBatch' = TinyBatchOf(now)
    /\ made' = Append(made, [ID |-> now, by |-> "newTinyBatch"])
    /\ TimeMarkAdded(now)
    /\ timeLock' = [timeLock EXCEPT ![getTimeLock(loop.timeID)] = "free"]
    /\ batchQueue' = IF tinyBatch.count # 0 THEN Append(batchQueue, tinyBatch)
                     ELSE batchQueue
    /\ loop' = [pc |-> "select", timeID |-> 0]
    /\ UNCHANGED <<blockCache, mu, del, appended>>
    /\ UNCHANGED <<writeLockC, holders, writing, worker, closeW, closed, closeC,
                   closer, poolStopped, walClosed, recov, outcome, user>>
    /\ UNCHANGED notDB

\* A database that is not open yet.
InitDB ==
    /\ tinyBatch = TinyBatchOf(0)
    /\ made = <<>>
    /\ writeQueue = <<>>
    /\ blockCache = EmptyMap
    /\ mu = "free"
    /\ timeLock = [l \in LockIDs |-> "free"]
    /\ del = [pc |-> "idle", timeID |-> 0, key |-> 0]
    /\ loop = [pc |-> "off", timeID |-> 0]
    /\ appended = <<>>
    /\ bat = [ID |-> 0, keys |-> {}, state |-> "none"]

NextDB ==
    \/ DBOpen
    \/ batch
    \/ \E key \in Keys : DeleteLock(key)
    \/ DeleteTimeLock
    \/ DeleteBlock
    \/ DeletePut
    \/ LoopRLock
    \/ LoopTimeRLock
    \/ LoopDispatch
    \/ Tick

-----------------------------------------------------------------------------
\* Memdb: the batch pool, tinyCommit under writeLockC, recovery and close.

\* The capacity of writeLockC: a single token.
writeLockCap == 1

\* The workers of the batch pool.
Workers == 1..maxBatches

\* The goroutines calling close().
Closers == 1..MaxClosers

NoBatch == [ID |-> 0, count |-> 0, managed |-> FALSE]

\* A send that never waits.
CanSendAlways(ch, cap) == TRUE

\* A send on a buffered channel goes through while the buffer has room.
CanSend(ch, cap) == ch < cap

\* A compare-and-swap that succeeds whatever the flag holds.
setClosedAlways == TRUE

\* setClosed: the compare-and-swap of the closed flag from 0 to 1 succeeds.
setClosed == closed = 0

\* The tiny-batches a caller can hand to the pool: a timeID, with entries or
\* without, managed by a Batch or not.
PoolInputs ==
    {[ID |-> t, count |-> c, managed |-> m] :
        t \in TimeIDs, c \in 0..1, m \in BOOLEAN}

\* The time-mark after release(timeID), as tinyCommit leaves it.
TimeMarkReleased(timeID) ==
    /\ IF timeID \notin DOMAIN records
       THEN UNCHANGED <<records, releasedRecords>>
       ELSE LET refs == records[timeID].refs - 1 IN
            IF refs > 0
            THEN /\ records' = MapPut(records, timeID,
                                      TimeRecord(refs, records[timeID].lastUnref))
                 /\ UNCHANGED releasedRecords
            ELSE /\ records' = MapDel(records, timeID)
                 /\ releasedRecords' = MapPut(releasedRecords, timeID,
                                              TimeRecord(refs, timeRecord))
    /\ refCount' = [refCount EXCEPT ![timeID] = IF @ > 0 THEN @ - 1 ELSE 0]
    /\ everZero' = IF refCount[timeID] = 1 THEN everZero \cup {timeID} ELSE everZero
    /\ UNCHANGED <<timeRecord, now, lastAbort, sweep>>

\* batchPool.write: a tiny-batch of entries put under its timeID is handed to
\* the pool.
PoolWrite(tb) ==
    /\ loop.pc # "off"
    /\ ~poolStopped
    /\ Len(writeQueue) < MaxQueue
    /\ ~Dispatched(tb.ID)
    /\ writeQueue' = Append(writeQueue, tb)
    /\ batchQueue' = Append(batchQueue, tb)
    /\ blockCache' = IF tb.count = 0 THEN blockCache
                     ELSE MapPut(blockCache, tb.ID, {iKey(FALSE, k) : k \in Keys})
    /\ TimeMarkAdded(tb.ID)
    /\ UNCHANGED <<tinyBatch, made, mu, timeLock, del, loop, appended>>
    /\ UNCHANGED <<writeLockC, holders, writing, worker, closeW, closed, closeC,
                   closer, poolStopped, walClosed, recov, outcome>>
    /\ UNCHANGED <<user, notDB>>

\* A pool worker takes the next tiny-batch and enters tinyCommit:
\* closeW.Add(1).
CommitBegin(w) ==
    /\ worker[w].pc = "idle"
    /\ batchQueue # <<>>
    /\ worker' = [worker EXCEPT ![w] = [pc |-> "acquire", tb |-> Head(batchQueue)]]
    /\ batchQueue' = Tail(batchQueue)
    /\ closeW' = closeW + 1
    /\ UNCHANGED <<tinyBatch, made, writeQueue, blockCache, mu, timeLock, del, loop,
                   appended>>
    /\ UNCHANGED <<writeLockC, holders, writing, closed, closeC, closer, poolStopped,
                   walClosed, recov, outcome>>
    /\ UNCHANGED <<tmVars, user, notDB>>

\* tinyCommit: db.internal.writeLockC <- struct{}{}
CommitAcquire(w) ==
    /\ worker[w].pc = "acquire"
    /\ CanSend(writeLockC, writeLockCap)
    /\ writeLockC' = writeLockC + 1
    /\ holders' = holders \cup {<<"worker", w>>}
    /\ worker' = [worker EXCEPT ![w].pc = "locked"]
    /\ UNCHANGED <<tinyBatch, made, writeQueue, blockCache, mu, timeLock, del, loop,
                   appended>>
    /\ UNCHANGED <<batchQueue, writing, closeW, closed, closeC, closer, poolStopped,
                   walClosed, recov, outcome>>
    /\ UNCHANGED <<tmVars, user, notDB>>

\* tinyCommit with the lock: an empty tiny-batch, or one without a block,
\* returns nil at once (an unmanaged one with entries is released); otherwise
\* tinyWrite obtains a writer and appends the records of the block, and either
\* can fail.
CommitAppend(w, err) ==
    /\ worker[w].pc = "locked"
    /\ LET tb == worker[w].tb IN
       IF tb.count = 0
       THEN /\ ~err
            /\ worker' = [worker EXCEPT ![w].pc = "return"]
            /\ outcome' = Append(outcome, [ID |-> tb.ID, err |-> FALSE,
                                           managed |-> tb.managed, count |-> tb.count,
                                           wrote |-> FALSE, released |-> FALSE])
            /\ UNCHANGED <<writing, tmVars>>
       ELSE IF tb.ID \notin DOMAIN blockCache
       THEN /\ worker' = [worker EXCEPT ![w].pc = "return"]
            /\ outcome' = Append(outcome, [ID |-> tb.ID, err |-> err,
                                           managed |-> tb.managed, count |-> tb.count,
                                           wrote |-> FALSE,
                                           released |-> ~err /\ ~tb.managed])
            /\ UNCHANGED writing
            /\ IF ~err /\ ~tb.managed THEN TimeMarkReleased(tb.ID)
               ELSE UNCHANGED tmVars
       ELSE IF err
       THEN /\ worker' = [worker EXCEPT ![w].pc = "return"]
            /\ outcome' = Append(outcome, [ID |-> tb.ID, err |-> TRUE,
                                           managed |-> tb.managed, count |-> tb.count,
                                           wrote |-> FALSE, released |-> FALSE])
            /\ UNCHANGED <<writing, tmVars>>
       ELSE /\ worker' = [worker EXCEPT ![w].pc = "appended"]
            /\ writing' = writing \cup {<<"worker", w>>}
            /\ UNCHANGED <<outcome, tmVars>>
    /\ UNCHANGED <<tinyBatch, made, writeQueue, blockCache, mu, timeLock, del, loop,
                   appended>>
    /\ UNCHANGED <<writeLockC, holders, batchQueue, closeW, closed, closeC, closer,
                   poolStopped, walClosed, recov>>
    /\ UNCHANGED <<user, notDB>>

\* tinyWrite: SignalInitWrite(timeID) ends the group, or fails; after a
\* successful write tinyCommit releases the timeID of an unmanaged tiny-batch.
CommitSignal(w, err) ==
    /\ worker[w].pc = "appended"
    /\ LET tb == worker[w].tb IN
       /\ outcome' = Append(outcome, [ID |-> tb.ID, err |-> err, managed |-> tb.managed,
                                      count |-> tb.count, wrote |-> ~err,
                                      released |-> ~err /\ ~tb.managed])
       /\ IF ~err /\ ~tb.managed THEN TimeMarkReleased(tb.ID) ELSE UNCHANGED tmVars
    /\ writing' = writing \ {<<"worker", w>>}
    /\ worker' = [worker EXCEPT ![w].pc = "return"]
    /\ UNCHANGED <<tinyBatch, made, writeQueue, blockCache, mu, timeLock, del, loop,
                   appended>>
    /\ UNCHANGED <<writeLockC, holders, batchQueue, closeW, closed, closeC, closer,
                   poolStopped, walClosed, recov>>
    /\ UNCHANGED <<user, notDB>>

\* tinyCommit returns: the deferred calls take the token back from writeLockC,
\* then tinyBatch.abort() and closeW.Done(). A _TinyBatch holds its ID and its
\* done channel only, so abort() reaches neither the time-mark nor the blocks.
CommitReturn(w) ==
    /\ worker[w].pc = "return"
    /\ writeLockC' = writeLockC - 1
    /\ holders' = holders \ {<<"worker", w>>}
    /\ closeW' = closeW - 1
    /\ worker' = [worker EXCEPT ![w] = [pc |-> "idle", tb |-> NoBatch]]
    /\ UNCHANGED <<tinyBatch, made, writeQueue, blockCache, mu, timeLock, del, loop,
                   appended>>
    /\ UNCHANGED <<batchQueue, writing, closed, closeC, closer, poolStopped,
                   walClosed, recov, outcome>>
    /\ UNCHANGED <<tmVars, user, notDB>>

\* startRecover, after the log was read and reset: the write lock is acquired.
RecoverAcquire ==
    /\ recov = "acquire"
    /\ CanSend(writeLockC, writeLockCap)
    /\ writeLockC' = writeLockC + 1
    /\ holders' = holders \cup {<<"recover", 0>>}
    /\ recov' = "locked"
    /\ UNCHANGED <<tinyBatch, made, writeQueue, blockCache, mu, timeLock, del, loop,
                   appended>>
    /\ UNCHANGED <<batchQueue, writing, worker, closeW, closed, closeC, closer,
                   poolStopped, walClosed, outcome>>
    /\ UNCHANGED <<tmVars, user, notDB>>

\* startRecover: the recovered entries are put into the current tiny-batch and
\* the write lock is released.
RecoverPuts ==
    /\ recov = "locked"
    /\ blockCache' = MapPut(blockCache, tinyBatch.ID,
                            (IF tinyBatch.ID \in DOMAIN blockCache
                             THEN blockCache[tinyBatch.ID] ELSE {})
                            \cup {iKey(FALSE, k) : k \in Keys})
    /\ tinyBatch' = [tinyBatch EXCEPT !.count = @ + Cardinality(Keys)]
    /\ writeLockC' = writeLockC - 1
    /\ holders' = holders \ {<<"recover", 0>>}
    /\ recov' = "done"
    /\ UNCHANGED <<made, writeQueue, mu, timeLock, del, loop, appended>>
    /\ UNCHANGED <<batchQueue, writing, worker, closeW, closed, closeC, closer,
                   poolStopped, walClosed, outcome>>
    /\ UNCHANGED <<tmVars, user, notDB>>

\* close: the caller that wins setClosed goes on, any other returns errClosed.
CloseCall(c) ==
    /\ loop.pc # "off"
    /\ closer[c] = "idle"
    /\ IF setClosed
       THEN /\ closed' = 1
            /\ closer' = [closer EXCEPT ![c] = "won"]
       ELSE /\ closer' = [closer EXCEPT ![c] = "errClosed"]
            /\ UNCHANGED closed
    /\ UNCHANGED <<tinyBatch, made, writeQueue, blockCache, mu, timeLock, del, loop,
                   appended>>
    /\ UNCHANGED <<writeLockC, holders, batchQueue, writing, worker, closeW, closeC,
                   poolStopped, walClosed, recov, outcome>>
    /\ UNCHANGED <<tmVars, user, notDB>>

\* close: after the sleep, close(db.internal.closeC).
CloseSignal(c) ==
    /\ closer[c] = "won"
    /\ closeC' = TRUE
    /\ closer' = [closer EXCEPT ![c] = "signalled"]
    /\ UNCHANGED <<tinyBatch, made, writeQueue, blockCache, mu, timeLock, del, loop,
                   appended>>
    /\ UNCHANGED <<writeLockC, holders, batchQueue, writing, worker, closeW, closed,
                   poolStopped, walClosed, recov, outcome>>
    /\ UNCHANGED <<tmVars, user, notDB>>

\* close: batchPool.stopWait() returns once the pool is drained and its
\* workers have finished.
CloseStopWait(c) ==
    /\ closer[c] = "signalled"
    /\ batchQueue = <<>>
    /\ \A w \in Workers : worker[w].pc = "idle"
    /\ poolStopped' = TRUE
    /\ closer' = [closer EXCEPT ![c] = "stopped"]
    /\ UNCHANGED <<tinyBatch, made, writeQueue, blockCache, mu, timeLock, del, loop,
                   appended>>
    /\ UNCHANGED <<writeLockC, holders, batchQueue, writing, worker, closeW, closed,
                   closeC, walClosed, recov, outcome>>
    /\ UNCHANGED <<tmVars, user, notDB>>

\* close: db.internal.writeLockC <- struct{}{}, never taken back.
CloseAcquire(c) ==
    /\ closer[c] = "stopped"
    /\ CanSend(writeLockC, writeLockCap)
    /\ writeLockC' = writeLockC + 1
    /\ holders' = holders \cup {<<"close", c>>}
    /\ closer' = [closer EXCEPT ![c] = "locked"]
    /\ UNCHANGED <<tinyBatch, made, writeQueue, blockCache, mu, timeLock, del, loop,
                   appended>>
    /\ UNCHANGED <<batchQueue, writing, worker, closeW, closed, closeC, poolStopped,
                   walClosed, recov, outcome>>
    /\ UNCHANGED <<tmVars, user, notDB>>

\* close: closeW.Wait() returns when the counter is zero; the log is closed.
CloseWal(c) ==
    /\ closer[c] = "locked"
    /\ closeW = 0
    /\ walClosed' = TRUE
    /\ closer' = [closer EXCEPT ![c] = "closed"]
    /\ UNCHANGED <<tinyBatch, made, writeQueue, blockCache, mu, timeLock, del, loop,
                   appended>>
    /\ UNCHANGED <<writeLockC, holders, batchQueue, writing, worker, closeW, closed,
                   closeC, poolStopped, recov, outcome>>
    /\ UNCHANGED <<tmVars, user, notDB>>

\* tinyBatchLoop: the select takes the close signal; the loop returns and its
\* deferred closeW.Done() runs.
LoopStop ==
    /\ loop.pc = "select"
    /\ closeC
    /\ loop' = [pc |-> "stopped", timeID |-> 0]
    /\ closeW' = closeW - 1
    /\ UNCHANGED <<tinyBatch, made, writeQueue, blockCache, mu, timeLock, del, appended>>
    /\ UNCHANGED <<writeLockC, holders, batchQueue, writing, worker, closed, closeC,
                   closer, poolStopped, walClosed, recov, outcome>>
    /\ UNCHANGED <<tmVars, user, notDB>>

\* commit: db.writeLockC <- struct{}{}, then closeW.Add(1).
UserAcquire ==
    /\ loop.pc # "off"
    /\ user = "idle"
    /\ CanSend(writeLockC, writeLockCap)
    /\ writeLockC' = writeLockC + 1
    /\ holders' = holders \cup {<<"user", 0>>}
    /\ closeW' = closeW + 1
    /\ user' = "locked"
    /\ UNCHANGED <<batchQueue, writing, worker, closed, closeC, closer, poolStopped,
                   walClosed, recov, outcome>>
    /\ UNCHANGED <<loopVars, tmVars, notDB>>

\* commit: a writer is obtained and the entries of the batch are appended.
UserAppend ==
    /\ user = "locked"
    /\ writing' = writing \cup {<<"user", 0>>}
    /\ user' = "appended"
    /\ UNCHANGED <<writeLockC, holders, batchQueue, worker, closeW, closed, closeC,
                   closer, poolStopped, walClosed, recov, outcome>>
    /\ UNCHANGED <<loopVars, tmVars, notDB>>

\* commit: SignalInitWrite, then the deferred closeW.Done() and the token is
\* taken back from writeLockC.
UserSignal ==
    /\ user = "appended"
    /\ writing' = writing \ {<<"user", 0>>}
    /\ writeLockC' = writeLockC - 1
    /\ holders' = holders \ {<<"user", 0>>}
    /\ closeW' = closeW - 1
    /\ user' = "idle"
    /\ UNCHANGED <<batchQueue, worker, closed, closeC, closer, poolStopped,
                   walClosed, recov, outcome>>
    /\ UNCHANGED <<loopVars, tmVars, notDB>>

\* The pool of a database that is not open yet.
InitPool ==
    /\ writeLockC = 0
    /\ holders = {}
    /\ batchQueue = <<>>
    /\ writing = {}
    /\ worker = [w \in Workers |-> [pc |-> "idle", tb |-> NoBatch]]
    /\ closeW = 0
    /\ closed = 0
    /\ closeC = FALSE
    /\ closer = [c \in Closers |-> "idle"]
    /\ poolStopped = FALSE
    /\ walClosed = FALSE
    /\ recov = "off"
    /\ outcome = <<>>
    /\ user = "idle"

NextPool ==
    \/ DBOpen
    \/ \E tb \in PoolInputs : PoolWrite(tb)
    \/ \E w \in Workers : CommitBegin(w)
    \/ \E w \in Workers : CommitAcquire(w)
    \/ \E w \in Workers, err \in BOOLEAN : CommitAppend(w, err)
    \/ \E w \in Workers, err \in BOOLEAN : CommitSignal(w, err)
    \/ \E w \in Workers : CommitReturn(w)
    \/ RecoverAcquire
    \/ RecoverPuts
    \/ \E c \in Closers : CloseCall(c)
    \/ \E c \in Closers : CloseSignal(c)
    \/ \E c \in Closers : CloseStopWait(c)
    \/ \E c \in Closers : CloseAcquire(c)
    \/ \E c \in Closers : CloseWal(c)
    \/ LoopStop
    \/ UserAcquire
    \/ UserAppend
    \/ UserSignal

-----------------------------------------------------------------------------
\* The database above the memdb: tinyCommit, commit and close.

\* tinyCommit: db.ok() finds the database open; the tiny-batch holds entries
\* and a writer is obtained.
TinyCommitOk(w) ==
    /\ loop.pc # "off"
    /\ worker[w].pc = "idle"
    /\ closed = 0
    /\ worker' = [worker EXCEPT ![w].pc = "checked"]
    /\ UNCHANGED <<writeLockC, holders, batchQueue, writing, closeW, closed, closeC,
                   closer, poolStopped, walClosed, recov, outcome, user>>
    /\ UNCHANGED <<loopVars, tmVars, notDB>>

\* tinyCommit: db.closeW.Add(1), before the send on writeLockC.
TinyCommitAdd(w) ==
    /\ worker[w].pc = "checked"
    /\ closeW' = closeW + 1
    /\ worker' = [worker EXCEPT ![w].pc = "acquire"]
    /\ UNCHANGED <<writeLockC, holders, batchQueue, writing, closed, closeC, closer,
                   poolStopped, walClosed, recov, outcome, user>>
    /\ UNCHANGED <<loopVars, tmVars, notDB>>

\* tinyCommit with the lock: the entries are written to the log; the deferred
\* function takes the token back from writeLockC and calls closeW.Done().
TinyCommitDone(w) ==
    /\ worker[w].pc = "locked"
    /\ writeLockC' = writeLockC - 1
    /\ holders' = holders \ {<<"worker", w>>}
    /\ closeW' = closeW - 1
    /\ worker' = [worker EXCEPT ![w].pc = "idle"]
    /\ UNCHANGED <<batchQueue, writing, closed, closeC, closer, poolStopped, walClosed,
                   recov, outcome, user>>
    /\ UNCHANGED <<loopVars, tmVars, notDB>>

\* close: after the sleep, db.writeLockC <- struct{}{} (and syncLockC), never
\* taken back.
DBCloseAcquire(c) ==
    /\ closer[c] = "signalled"
    /\ CanSend(writeLockC, writeLockCap)
    /\ writeLockC' = writeLockC + 1
    /\ holders' = holders \cup {<<"close", c>>}
    /\ closer' = [closer EXCEPT ![c] = "locked"]
    /\ UNCHANGED <<batchQueue, writing, worker, closeW, closed, closeC, poolStopped,
                   walClosed, recov, outcome, user>>
    /\ UNCHANGED <<loopVars, tmVars, notDB>>

\* close: db.closeW.Wait() returns when the counter is zero, and close
\* returns nil.
DBCloseReturn(c) ==
    /\ closer[c] = "locked"
    /\ closeW = 0
    /\ closer' = [closer EXCEPT ![c] = "closed"]
    /\ UNCHANGED <<writeLockC, holders, batchQueue, writing, worker, closeW, closed,
                   closeC, poolStopped, walClosed, recov, outcome, user>>
    /\ UNCHANGED <<loopVars, tmVars, notDB>>

\* commit: db.ok() finds the database open, and the lock is taken.
UserCommit == closed = 0 /\ UserAcquire

NextClose ==
    \/ DBOpen
    \/ \E w \in Workers : TinyCommitOk(w)
    \/ \E w \in Workers : TinyCommitAdd(w)
    \/ \E w \in Workers : CommitAcquire(w)
    \/ \E w \in Workers : TinyCommitDone(w)
    \/ UserCommit
    \/ UserAppend
    \/ UserSignal
    \/ \E c \in Closers : CloseCall(c)
    \/ \E c \in Closers : CloseSignal(c)
    \/ \E c \in Closers : DBCloseAcquire(c)
    \/ \E c \in Closers : DBCloseReturn(c)
    \/ LoopStop

-----------------------------------------------------------------------------
\* Memdb: the Batch.

\* The time-mark after abort(timeID), as a Batch leaves it.
TimeMarkAborted(timeID) ==
    /\ records' = IF timeID \in DOMAIN records THEN MapDel(records, timeID) ELSE records
    /\ releasedRecords' = MapPut(releasedRecords, timeID, AbortRecord(timeID))
    /\ refCount' = [refCount EXCEPT ![timeID] = 0]
    /\ everZero' = everZero \cup {timeID}
    /\ lastAbort' = [tid |-> timeID, from |-> KnownAs(timeID)]
    /\ UNCHANGED <<timeRecord, now, sweep>>

\* Batch.Put: under db.mu and the time lock the entry is put into the block
\* of the timeID of the batch.
BatchPut(key) ==
    /\ bat.state = "open"
    /\ key \notin bat.keys
    /\ mu = "free"
    /\ timeLock[getTimeLock(bat.ID)] = "free"
    /\ blockCache' = MapPut(blockCache, bat.ID,
                            (IF bat.ID \in DOMAIN blockCache
                             THEN blockCache[bat.ID] ELSE {}) \cup {iKey(FALSE, key)})
    /\ bat' = [bat EXCEPT !.keys = @ \cup {key}]
    /\ UNCHANGED <<tinyBatch, made, writeQueue, mu, timeLock, del, loop, appended>>
    /\ UNCHANGED <<tmVars, poolVars, notBatch>>

\* Batch.Commit: the tiny-batch of the batch is committed as a managed one,
\* under writeLockC; after a durable write the batch releases its timeID, on
\* an error it aborts the timeID and the block is discarded.
BatchCommit(err) ==
    /\ bat.state = "open"
    /\ bat.keys # {}
    /\ CanSend(writeLockC, writeLockCap)
    /\ IF err
       THEN /\ TimeMarkAborted(bat.ID)
            /\ blockCache' = MapDel(blockCache, bat.ID)
            /\ bat' = [bat EXCEPT !.state = "aborted"]
       ELSE /\ TimeMarkReleased(bat.ID)
            /\ bat' = [bat EXCEPT !.state = "committed"]
            /\ UNCHANGED blockCache
    /\ UNCHANGED <<tinyBatch, made, writeQueue, mu, timeLock, del, loop, appended>>
    /\ UNCHANGED <<poolVars, notBatch>>

\* Batch.Abort, or the batch function returned an error: the timeID of the
\* batch is aborted and the block is discarded.
BatchAbort ==
    /\ bat.state = "open"
    /\ TimeMarkAborted(bat.ID)
    /\ blockCache' = IF bat.ID \in DOMAIN blockCache THEN MapDel(blockCache, bat.ID)
                     ELSE blockCache
    /\ bat' = [bat EXCEPT !.state = "aborted"]
    /\ UNCHANGED <<tinyBatch, made, writeQueue, mu, timeLock, del, loop, appended>>
    /\ UNCHANGED <<poolVars, notBatch>>

\* Get sees the entry of key put under timeID: its block holds the entry and
\* the time-mark has the timeID released.
Visible(timeID, key) ==
    /\ timeID \in DOMAIN blockCache
    /\ iKey(FALSE, key) \in blockCache[timeID]
    /\ isReleased(timeID)

NextBatch ==
    \/ DBOpen
    \/ Tick
    \/ newTimeRecord
    \/ batch
    \/ \E key \in Keys : BatchPut(key)
    \/ \E err \in BOOLEAN : BatchCommit(err)
    \/ BatchAbort
    \/ \E key \in Keys : DeleteLock(key)
    \/ DeleteTimeLock
    \/ DeleteBlock
    \/ DeletePut
    \/ LoopRLock
    \/ LoopTimeRLock
    \/ LoopDispatch
    \/ \E w \in Workers : CommitBegin(w)
    \/ \E w \in Workers : CommitAcquire(w)
    \/ \E w \in Workers, err \in BOOLEAN : CommitAppend(w, err)
    \/ \E w \in Workers, err \in BOOLEAN : CommitSignal(w, err)
    \/ \E w \in Workers : CommitReturn(w)

-----------------------------------------------------------------------------
\* Memdb: releaseLog and move.

MarkerKeys == 1..MaxMarkers

\* The timeID a deletion marker carries as its data: delete puts the marker
\* into the block of the timeID it read and writes that same timeID.
Target(timeID, ik) == timeID

\* The deletion markers of a block.
dkeys(block) == {ik \in block : ik.delFlag = 1}

\* The log holds a group of timeID: a tinyCommit has written it.
Committed(timeID) ==
    \/ \E i \in 1..Len(outcome) : outcome[i].ID = timeID /\ outcome[i].wrote
    \/ bat.state = "committed" /\ bat.ID = timeID

\* blockCache after delete(key), called with the tiny-batch tb current.
DeleteInto(cache, tb, key) ==
    MapPut(cache, tb.ID, (IF tb.ID \in DOMAIN cache THEN cache[tb.ID] ELSE {})
                             \cup {iKey(TRUE, key)})

\* move: the markers of the block are collected and visited in the order of
\* the map; at the first one whose target is in blockCache move returns what
\* delete(ik.key) returns. The results one call can have.
move(timeID) ==
    LET live == {ik \in dkeys(blockCache[timeID]) :
                     Target(timeID, ik) \in DOMAIN blockCache}
    IN IF live = {} THEN {[cache |-> blockCache, tb |-> tinyBatch]}
       ELSE {[cache |-> DeleteInto(blockCache, tinyBatch, ik.key),
              tb |-> incount(tinyBatch)] : ik \in live}

\* The keys of the live markers of the block of timeID that have no marker in
\* the block of the tiny-batch tb.
NotMoved(cache, tb, timeID) ==
    {ik.key : ik \in {d \in dkeys(cache[timeID]) :
                          /\ Target(timeID, d) \in DOMAIN cache
                          /\ \/ tb.ID \notin DOMAIN cache
                             \/ iKey(TRUE, d.key) \notin cache[tb.ID]}}

\* releaseLog(timeID): db.move(timeID), with the delete it calls.
ReleaseMove(timeID) ==
    /\ rel.pc = "idle"
    /\ Len(relLog) < MaxReleases
    /\ timeID \in DOMAIN blockCache
    /\ timeID \notin applied
    /\ Committed(timeID)
    /\ mu = "free"
    /\ timeLock[getTimeLock(tinyBatch.ID)] = "free"
    /\ \E m \in move(timeID) :
          /\ blockCache' = m.cache
          /\ tinyBatch' = m.tb
          /\ rel' = [pc |-> "moved", timeID |-> timeID,
                     missing |-> NotMoved(m.cache, m.tb, timeID)]
    /\ UNCHANGED <<made, writeQueue, mu, timeLock, del, loop, appended>>
    /\ UNCHANGED <<applied, relLog, notRel>>

\* releaseLog(timeID) for a timeID without a block: move reads a nil block
\* from blockCache and calls block.RLock() on it, which panics with a nil
\* dereference; nothing recovers, and no error is returned.
ReleaseMissing(timeID) ==
    /\ rel.pc = "idle"
    /\ loop.pc # "off"
    /\ Len(relLog) < MaxReleases
    /\ timeID \notin DOMAIN blockCache
    /\ mu = "free"
    /\ rel' = [pc |-> "panic", timeID |-> timeID, missing |-> {}]
    /\ relLog' = Append(relLog, [timeID |-> timeID, err |-> FALSE, noBlock |-> TRUE,
                                 panic |-> TRUE, absent |-> TRUE,
                                 applied |-> timeID \in applied])
    /\ UNCHANGED <<loopVars, applied, notRel>>

\* releaseLog: the block is looked up and removed from blockCache. Without a
\* block the call ends in block.Lock() on a nil block, before it signals.
ReleaseRemove ==
    /\ rel.pc = "moved"
    /\ mu = "free"
    /\ IF rel.timeID \in DOMAIN blockCache
       THEN /\ blockCache' = MapDel(blockCache, rel.timeID)
            /\ rel' = [rel EXCEPT !.pc = "removed"]
            /\ UNCHANGED relLog
       ELSE /\ rel' = [rel EXCEPT !.pc = "panic"]
            /\ relLog' = Append(relLog, [timeID |-> rel.timeID, err |-> FALSE,
                                         noBlock |-> FALSE, panic |-> TRUE,
                                         absent |-> TRUE,
                                         applied |-> rel.timeID \in applied])
            /\ UNCHANGED blockCache
    /\ UNCHANGED <<tinyBatch, made, writeQueue, mu, timeLock, del, loop, appended>>
    /\ UNCHANGED <<applied, notRel>>

\* releaseLog: wal.SignalLogApplied(timeID), and its result is returned.
ReleaseSignal(err) ==
    /\ rel.pc = "removed"
    /\ applied' = IF err THEN applied ELSE applied \cup {rel.timeID}
    /\ relLog' = Append(relLog, [timeID |-> rel.timeID, err |-> err,
                                 noBlock |-> FALSE, panic |-> FALSE,
                                 absent |-> rel.timeID \notin DOMAIN blockCache,
                                 applied |-> rel.timeID \in applied'])
    /\ rel' = [pc |-> "idle", timeID |-> 0, missing |-> {}]
    /\ UNCHANGED <<loopVars, notRel>>

InitRelease ==
    /\ rel = [pc |-> "idle", timeID |-> 0, missing |-> {}]
    /\ applied = {}
    /\ relLog = <<>>

\* The tiny-batch loop, delete, the pool workers and releaseLog.
NextRelease ==
    \/ DBOpen
    \/ Tick
    \/ \E key \in MarkerKeys : DeleteLock(key)
    \/ DeleteTimeLock
    \/ DeleteBlock
    \/ DeletePut
    \/ LoopRLock
    \/ LoopTimeRLock
    \/ LoopDispatch
    \/ \E w \in Workers : CommitBegin(w)
    \/ \E w \in Workers : CommitAcquire(w)
    \/ \E w \in Workers, err \in BOOLEAN : CommitAppend(w, err)
    \/ \E w \in Workers, err \in BOOLEAN : CommitSignal(w, err)
    \/ \E w \in Workers : CommitReturn(w)
    \/ \E t \in TimeIDs : ReleaseMove(t)
    \/ \E t \in TimeIDs : ReleaseMissing(t)
    \/ ReleaseRemove
    \/ \E err \in BOOLEAN : ReleaseSignal(err)

\* The tiny-batch loop with delete and the pool workers: every tiny-batch the
\* loop hands to the pool is committed.
NextTicker ==
    \/ DBOpen
    \/ Tick
    \/ \E key \in MarkerKeys : DeleteLock(key)
    \/ DeleteTimeLock
    \/ DeleteBlock
    \/ DeletePut
    \/ LoopRLock
    \/ LoopTimeRLock
    \/ LoopDispatch
    \/ \E w \in Workers : CommitBegin(w)
    \/ \E w \in Workers : CommitAcquire(w)
    \/ \E w \in Workers, err \in BOOLEAN : CommitAppend(w, err)
    \/ \E w \in Workers, err \in BOOLEAN : CommitSignal(w, err)
    \/ \E w \in Workers : CommitReturn(w)

\* Batches, delete and releaseLog.
NextBatchRelease ==
    \/ DBOpen
    \/ Tick
    \/ batch
    \/ \E key \in Keys : BatchPut(key)
    \/ \E err \in BOOLEAN : BatchCommit(err)
    \/ BatchAbort
    \/ \E key \in Keys : DeleteLock(key)
    \/ DeleteTimeLock
    \/ DeleteBlock
    \/ DeletePut
    \/ \E t \in TimeIDs : ReleaseMove(t)
    \/ \E t \in TimeIDs : ReleaseMissing(t)
    \/ ReleaseRemove
    \/ \E err \in BOOLEAN : ReleaseSignal(err)

-----------------------------------------------------------------------------
\* Memdb: tinyWrite, from the block of a tiny-batch to a group of the log.

\* The calls made on a key while a tiny-batch is current, in call order.
CallSeqs == {<<"put">>, <<"del">>, <<"put", "del">>, <<"del", "put">>}

\* The record a call leaves in the block: _Block.put stores it under the
\* internal key, the delete flag and the key.
RecordOf(call, key) ==
    IF call = "put" THEN PutEntry(key, <<7>>) ELSE DelEntry(key, 1)

\* block.records after the calls: one record per internal key.
BlockRecords(calls, key) == {RecordOf(calls[i], key) : i \in 1..Len(calls)}

\* The orders in which ranging over the map block.records can yield its
\* records: every order.
MapRangeOrders(calls, key) ==
    LET recs == BlockRecords(calls, key)
        n == Cardinality(recs)
    IN {sq \in [1..n -> recs] : \A i, j \in 1..n : i # j => sq[i] # sq[j]}

\* Whether a group written earlier, and still WRITTEN, holds a put of key.
PutWritten(key) ==
    \E i \in 1..Len(hist) :
        /\ hist[i].st = "written"
        /\ \E j \in 1..Len(hist[i].recs) : hist[i].recs[j] = PutEntry(key, <<7>>)

\* The keys put and later deleted, after the calls.
GoneAfter(calls, key) ==
    IF calls[Len(calls)] = "put" THEN gone \ {key}
    ELSE IF Len(calls) > 1 \/ PutWritten(key) THEN gone \cup {key}
    ELSE gone

\* tinyWrite: the records of the block are appended in the order the map
\* yields them, then SignalInitWrite writes the group.
tinyWrite(calls, key) ==
    /\ pc = "run"
    /\ cb = "recover"
    /\ wrecs = <<>>
    /\ Len(hist) < MaxGroups
    /\ \E recs \in MapRangeOrders(calls, key) :
          /\ LET body == Body(recs)
                 sz == logHeaderSize + Len(body)
                 off == AllocateOffset(walSegments, sz, Len(file), walTargetSize)
                 l == LogInfo(logVersion, logStatusWritten, nextTimeID, Len(recs), sz, off)
             IN file' = writeAt(writeAt(file, body, off + logHeaderSize),
                                LogInfoMarshal(l), off)
          /\ hist' = Append(hist, Group(nextTimeID, recs, "written"))
    /\ gone' = GoneAfter(calls, key)
    /\ nextTimeID' = nextTimeID + 1
    /\ drained' = "no"
    /\ UNCHANGED <<pc, cb, BufferSize, needRecovery, recoveredLogs, wrecs, readerVars,
                   readErr, log, memdb, torn, delivered, owed, cleanStart>>
    /\ UNCHANGED <<tmVars, segVars, dbVars, relVars, rdrVars, iterVars, udbVars>>

InitTiny == gone = {}

NextTiny ==
    \/ Open
    \/ NoRead
    \/ \E calls \in CallSeqs, key \in Keys : tinyWrite(calls, key)
    \/ ReadBegin
    \/ ReadLog
    \/ WalReset
    \/ \E k \in Keys : RecoverPut(k)
    \/ RecoverReturn
    \/ Resume
    \/ Crash

-----------------------------------------------------------------------------
\* The item iterator.

\* The slots of one bucket.
entriesPerBucket == 2

\* An item as the iterator queues it; a stored slot holds the item and whether
\* its expiry time has passed.
Item(b, i) == [bucket |-> b, slot |-> i]

\* The stored items whose expiry time has not passed.
Live == {Item(b, i) : b \in 1..nBuckets, i \in 1..entriesPerBucket} \cap
        {x \in [bucket : 1..nBuckets, slot : 1..entriesPerBucket] :
            /\ x.slot <= Len(buckets[x.bucket])
            /\ ~buckets[x.bucket][x.slot]}

RECURSIVE ScanBucket(_, _, _)
\* The callback Next gives forEachBucket, from slot i on: an empty slot ends
\* the scan, a slot that reads as ErrKeyExpired makes the callback return,
\* any other slot is queued.
ScanBucket(b, i, queue) ==
    IF i > entriesPerBucket \/ i > Len(buckets[b]) THEN queue
    ELSE IF buckets[b][i] THEN queue
    ELSE ScanBucket(b, i + 1, Append(queue, Item(b, i)))

RECURSIVE FillQueue(_, _)
\* Next with an empty queue: buckets are scanned from nextBucketIdx until
\* one has put something into the queue.
FillQueue(bidx, queue) ==
    IF bidx >= nBuckets THEN [nextBucketIdx |-> bidx, queue |-> queue]
    ELSE LET q == ScanBucket(bidx + 1, 1, queue) IN
         IF Len(q) > 0 THEN [nextBucketIdx |-> bidx + 1, queue |-> q]
         ELSE FillQueue(bidx + 1, q)

\* ItemIterator.Next
IterNext(i) ==
    LET f == IF Len(i.queue) = 0 THEN FillQueue(i.nextBucketIdx, i.queue)
             ELSE [nextBucketIdx |-> i.nextBucketIdx, queue |-> i.queue]
    IN IF Len(f.queue) > 0
       THEN [nextBucketIdx |-> f.nextBucketIdx, item |-> Head(f.queue),
             queue |-> Tail(f.queue)]
       ELSE [nextBucketIdx |-> f.nextBucketIdx, item |-> i.item, queue |-> f.queue]

\* ItemIterator.Valid
Valid(i) == Len(i.queue) > 0

\* An entry is stored in the next free slot of bucket b; by the time of the
\* iteration its expiry time has passed, or not.
StoreItem(b, expired) ==
    /\ ipc = "new"
    /\ Len(buckets[b]) < entriesPerBucket
    /\ buckets' = [buckets EXCEPT ![b] = Append(@, expired)]
    /\ UNCHANGED <<it, ipc, yielded>>
    /\ UNCHANGED notIter

\* The loop calls it.Next(), at its start and after each item.
LoopNext ==
    /\ ipc \in {"new", "used"}
    /\ it' = IterNext(it)
    /\ ipc' = "check"
    /\ UNCHANGED <<buckets, yielded>>
    /\ UNCHANGED notIter

\* The loop finds it.Valid() true and takes it.Item().
LoopItem ==
    /\ ipc = "check"
    /\ Valid(it)
    /\ yielded' = Append(yielded, it.item)
    /\ ipc' = "used"
    /\ UNCHANGED <<buckets, it>>
    /\ UNCHANGED notIter

\* The loop finds it.Valid() false and ends.
LoopEnd ==
    /\ ipc = "check"
    /\ ~Valid(it)
    /\ ipc' = "done"
    /\ UNCHANGED <<buckets, it, yielded>>
    /\ UNCHANGED notIter

\* An empty table and a new iterator over it.
InitIter ==
    /\ buckets = [b \in 1..nBuckets |-> <<>>]
    /\ it = [nextBucketIdx |-> 0, item |-> Item(0, 0), queue |-> <<>>]
    /\ ipc = "new"
    /\ yielded = <<>>

NextIter ==
    \/ \E b \in 1..nBuckets, expired \in BOOLEAN : StoreItem(b, expired)
    \/ LoopNext
    \/ LoopItem
    \/ LoopEnd

-----------------------------------------------------------------------------
\* unitdb: the topic trie, the time-window index and db.lookup.

\* The hashes of the topics in use.
TopicHashes == 1..MaxTopics

\* The expiry times an entry can carry; 0 is an entry that never expires.
Expiries == {0, 1}

\* The cutoff times of a query.
Cutoffs == {1, 2}

\* The entries of one window block.
seqsPerWindowBlock == 2

\* The offset of the head block of a topic in the window file, 0 when the
\* topic has no block: the block of the topic no other block links to.
HeadOffset(blocks, topicHash) ==
    LET own == {o \in 1..Len(blocks) : blocks[o].topicHash = topicHash}
    IN IF own = {} THEN 0
       ELSE CHOOSE o \in own : \A n \in own : blocks[n].next # o

\* timeWindow.append: the entry is written into the head block of the topic; a
\* full head block, or none, gets a new head whose next links the old one.
WindowAppend(blocks, topicHash, seq, expiresAt) ==
    LET head == HeadOffset(blocks, topicHash)
        we == [seq |-> seq, expiresAt |-> expiresAt]
    IN IF head = 0 \/ Len(blocks[head].entries) = seqsPerWindowBlock
       THEN Append(blocks, [topicHash |-> topicHash, next |-> head, entries |-> <<we>>])
       ELSE [blocks EXCEPT ![head].entries = Append(@, we)]

\* The number of window entries stored so far.
Stored ==
    LET RECURSIVE Sum(_)
        Sum(o) == IF o = 0 THEN 0 ELSE Len(winBlocks[o].entries) + Sum(o - 1)
    IN Sum(Len(winBlocks))

\* An entry is written through to the window file for a topic of the trie,
\* which holds the offset of the head block.
WindowStore(topicHash, expiresAt) ==
    /\ Stored < MaxEntries
    /\ winBlocks' = WindowAppend(winBlocks, topicHash, Stored + 1, expiresAt)
    /\ trie' = {t \in trie : t.hash # topicHash} \cup
               {[hash |-> topicHash, offset |-> HeadOffset(winBlocks', topicHash)]}
    /\ UNCHANGED query
    /\ UNCHANGED entryVars
    /\ UNCHANGED headerVars
    /\ UNCHANGED notUdb

RECURSIVE Reversed(_)
\* The entries of a window block, the newest first.
Reversed(entries) ==
    IF entries = <<>> THEN <<>>
    ELSE Append(Reversed(Tail(entries)), Head(entries))

RECURSIVE Chain(_, _)
\* The entries of the chain of a topic from the block at off on, newest first.
Chain(topicHash, off) ==
    IF off = 0 \/ winBlocks[off].topicHash # topicHash THEN <<>>
    ELSE Reversed(winBlocks[off].entries) \o Chain(topicHash, winBlocks[off].next)

\* timeWindow.lookup: the chain is walked from its head, yielding the entries
\* that have not expired at the cutoff, until limit is reached or the chain ends.
WindowLookup(topicHash, off, cutoff, limit) ==
    LET live == SelectSeq(Chain(topicHash, off),
                          LAMBDA e : e.expiresAt = 0 \/ e.expiresAt >= cutoff)
    IN SubSeq(live, 1, IF limit < Len(live) THEN limit ELSE Len(live))

RECURSIVE SortTopics(_)
\* sort.Slice of the topics, the larger offset first.
SortTopics(topics) ==
    IF topics = {} THEN <<>>
    ELSE LET t == CHOOSE x \in topics : \A y \in topics : x.offset >= y.offset
         IN <<t>> \o SortTopics(topics \ {t})

\* The entries in the order they were appended.
AsAppended(entries) == entries

RECURSIVE SortBySeq(_)
\* sort.Slice of the window entries, the larger sequence first.
SortBySeq(entries) ==
    IF entries = <<>> THEN <<>>
    ELSE LET i == CHOOSE k \in 1..Len(entries) :
                      \A j \in 1..Len(entries) : entries[k].seq >= entries[j].seq
         IN <<entries[i]>> \o
            SortBySeq(SubSeq(entries, 1, i - 1) \o SubSeq(entries, i + 1, Len(entries)))

RECURSIVE Probe(_, _, _, _, _)
\* The loop of db.lookup over the sorted topics.
Probe(topics, winEntries, probed, Limit, cutoff) ==
    IF topics = <<>> \/ Len(winEntries) > Limit
    THEN [winEntries |-> winEntries, probed |-> probed]
    ELSE LET topic == Head(topics)
             limit == Limit - Len(winEntries)
             wEntries == WindowLookup(topic.hash, topic.offset, cutoff, limit)
         IN Probe(Tail(topics),
                  winEntries \o [i \in 1..Len(wEntries) |->
                                    [topicHash |-> topic.hash, seq |-> wEntries[i].seq]],
                  Append(probed, [hash |-> topic.hash, offset |-> topic.offset,
                                  got |-> Len(wEntries)]),
                  Limit, cutoff)

\* db.lookup for a new Query; matching are the topics trie.lookup resolves
\* the pattern of the query to.
lookup(matching, Limit, cutoff) ==
    /\ LET r == Probe(SortTopics(matching), <<>>, <<>>, Limit, cutoff)
       IN query' = [state |-> "done", Limit |-> Limit, cutoff |-> cutoff,
                    winEntries |-> SortBySeq(r.winEntries), probed |-> r.probed]
    /\ UNCHANGED <<trie, winBlocks>>
    /\ UNCHANGED entryVars
    /\ UNCHANGED headerVars
    /\ UNCHANGED notUdb

\* No topic, no window block, and no query made.
InitLookup ==
    /\ trie = {}
    /\ winBlocks = <<>>
    /\ query = [state |-> "new", Limit |-> 0, cutoff |-> 0, winEntries |-> <<>>,
                probed |-> <<>>]

NextLookup ==
    \/ \E h \in TopicHashes, x \in Expiries : WindowStore(h, x)
    \/ \E m \in SUBSET trie, l \in 0..MaxLimit, c \in Cutoffs : lookup(m, l, c)

-----------------------------------------------------------------------------
\* unitdb: Entry values, db.setEntry, sequences, the lease, the index file.

\* The Entry values the callers hold.
EntryVals == 1..MaxEntryVals

\* message.MasterContract, the contract of an entry that names none.
MasterContract == 1

\* The slots of one index block.
entriesPerIndexBlock == 2

\* The cacheID a new DB is given.
NewCacheID == 5

\* A new Entry for a topic text; topic 0 is a text that does not parse, any
\* other text parses to the topic with that hash.
NewEntryVal(topic) ==
    [Topic |-> topic, ID |-> 0, Contract |-> 0, parsed |-> FALSE, topicHash |-> 0,
     topicSize |-> 0, seq |-> 0, cacheEntry |-> <<>>]

\* slot{}, the zero value of a slot.
ZeroSlot == [seq |-> 0, topicSize |-> 0, topic |-> 0]

\* db.nextSeq: atomic.AddUint64(&db.sequence, 1)
nextSeq == sequence + 1

\* A parse that never fails.
parseAnything(topic) == [t |-> topic, err |-> "nil"]

\* db.parseTopic: the topic and nil, or errBadRequest for TopicInvalid.
parseTopic(topic) ==
    IF topic = 0 THEN [t |-> 0, err |-> "errBadRequest"]
    ELSE [t |-> topic, err |-> "nil"]

\* The slots lease.getSlot can hand out for a topic: the freed sequences under it.
getSlot(topicHash) == {s \in lease : s.topicHash = topicHash}

\* trie.getOffset finds the topic.
getOffset(topicHash) == \E t \in trie : t.hash = topicHash

\* startBlockIndex: the index block of a sequence.
startBlockIndex(seq) == (seq - 1) \div entriesPerIndexBlock

RECURSIVE XOR(_, _)
\* a ^ b on unsigned integers.
XOR(a, b) ==
    IF a = 0 THEN b
    ELSE IF b = 0 THEN a
    ELSE (((a % 2) + (b % 2)) % 2) + 2 * XOR(a \div 2, b \div 2)

\* The entries set and not yet written through: the memdb holds them, each
\* under the key cacheID XOR seq.
InMem == {k \in (synced + 1)..Len(setLog) : setLog[k].err = "nil"}

\* db.mem.Get(blockID, memseq): the entries the memdb holds under the key.
memGet(memseq) == {k \in InMem : XOR(cacheID, setLog[k].seq) = memseq}

\* The caller makes a new Entry value for a topic.
NewEntry(i, topic) ==
    /\ loaded.state = "no"
    /\ Len(setLog) < MaxSets
    /\ entryVal[i] # NewEntryVal(topic)
    /\ entryVal' = [entryVal EXCEPT ![i] = NewEntryVal(topic)]
    /\ UNCHANGED <<sequence, lease, setLog, index, blockIdx, synced, cacheID, readRes, loaded>>
    /\ UNCHANGED lookupVars
    /\ UNCHANGED headerVars
    /\ UNCHANGED notUdb

\* The caller takes an ID from DB.NewID() for a new Entry value.
NewID(i) ==
    /\ loaded.state = "no"
    /\ sequence < MaxSets
    /\ entryVal[i].ID = 0
    /\ ~entryVal[i].parsed
    /\ sequence' = nextSeq
    /\ entryVal' = [entryVal EXCEPT ![i].ID = nextSeq]
    /\ UNCHANGED <<lease, setLog, index, blockIdx, synced, cacheID, readRes, loaded>>
    /\ UNCHANGED lookupVars
    /\ UNCHANGED headerVars
    /\ UNCHANGED notUdb

\* db.setEntry(e) for the Entry value i; slot is the lease slot getSlot
\* returns when the topic has one.
setEntry(i, slot) ==
    LET e == entryVal[i]
        contract == IF e.Contract = 0 THEN MasterContract ELSE e.Contract
        p == parseTopic(e.Topic)
    IN /\ loaded.state = "no"
       /\ Len(setLog) < MaxSets
       /\ sequence < MaxSets
       /\ IF ~e.parsed /\ p.err # "nil"
          THEN /\ entryVal' = [entryVal EXCEPT ![i].Contract = contract]
               /\ setLog' = Append(setLog, [entry |-> i, topic |-> e.Topic, err |-> p.err,
                                            seq |-> 0, topicSize |-> 0, text |-> 0,
                                            ownID |-> e.ID # 0, leased |-> FALSE])
               /\ UNCHANGED <<sequence, lease>>
          ELSE LET rawTopic == IF ~e.parsed /\ ~getOffset(p.t) THEN p.t ELSE 0
                   e1 == IF e.parsed THEN e
                         ELSE [e EXCEPT !.Contract = contract, !.topicHash = p.t,
                                        !.topicSize = IF getOffset(p.t) THEN @ ELSE 1,
                                        !.parsed = TRUE]
                   ok == e1.ID = 0 /\ getSlot(e1.topicHash) # {}
                   seq == IF e1.ID # 0 THEN e1.ID
                          ELSE IF ok THEN slot.seq
                          ELSE nextSeq
               IN /\ ok => slot \in getSlot(e1.topicHash)
                  /\ ~ok => slot = [topicHash |-> 0, seq |-> 0]
                  /\ lease' = IF ok THEN lease \ {slot} ELSE lease
                  /\ sequence' = IF e1.ID = 0 /\ ~ok THEN nextSeq ELSE sequence
                  /\ entryVal' = [entryVal EXCEPT ![i] =
                         [e1 EXCEPT !.seq = seq,
                                    !.cacheEntry = <<[seq |-> seq, topicSize |-> e1.topicSize,
                                                      topic |-> rawTopic]>>]]
                  /\ setLog' = Append(setLog, [entry |-> i, topic |-> e1.topicHash,
                                               err |-> "nil", seq |-> seq,
                                               topicSize |-> e1.topicSize, text |-> rawTopic,
                                               ownID |-> e1.ID # 0, leased |-> ok])
       /\ UNCHANGED <<index, blockIdx, synced, cacheID, readRes, loaded>>
       /\ UNCHANGED lookupVars
       /\ UNCHANGED headerVars
       /\ UNCHANGED notUdb

\* The oldest entry not yet written through goes to the files: its slot into
\* the index block of its sequence, its window entry into the chain of its
\* topic, and its topic into the trie unless the trie has it; the memdb lets
\* the entry go.
Sync ==
    LET due == {k \in (synced + 1)..Len(setLog) : setLog[k].err = "nil"}
    IN /\ loaded.state = "no"
       /\ due # {}
       /\ LET k == CHOOSE x \in due : \A y \in due : x <= y
              r == setLog[k]
          IN /\ synced' = k
             /\ index' = {s \in index : s.seq # r.seq} \cup
                         {[seq |-> r.seq, topicSize |-> r.topicSize, topic |-> r.text]}
             /\ blockIdx' = IF startBlockIndex(r.seq) + 1 > blockIdx
                            THEN startBlockIndex(r.seq) + 1 ELSE blockIdx
             /\ winBlocks' = WindowAppend(winBlocks, r.topic, r.seq, 0)
             /\ trie' = {t \in trie : t.hash # r.topic} \cup
                        {[hash |-> r.topic, offset |-> HeadOffset(winBlocks', r.topic)]}
       /\ UNCHANGED <<sequence, lease, entryVal, setLog, cacheID, readRes, loaded, query>>
       /\ UNCHANGED headerVars
       /\ UNCHANGED notUdb

\* db.delete(topicHash, seq) of an entry in the index, asked for by ID or by the
\* expiry of the entry: the slot is taken out of its index block and goes to
\* the lease.
dbDelete(k) ==
    /\ loaded.state = "no"
    /\ k <= synced
    /\ setLog[k].err = "nil"
    /\ \A j \in 1..Len(setLog) : setLog[j].seq = setLog[k].seq => j <= k
    /\ \E s \in index : s.seq = setLog[k].seq
    /\ startBlockIndex(setLog[k].seq) <= blockIdx
    /\ index' = {s \in index : s.seq # setLog[k].seq}
    /\ lease' = lease \cup {[topicHash |-> setLog[k].topic, seq |-> setLog[k].seq]}
    /\ UNCHANGED <<sequence, entryVal, setLog, blockIdx, synced, cacheID, readRes, loaded>>
    /\ UNCHANGED lookupVars
    /\ UNCHANGED headerVars
    /\ UNCHANGED notUdb

\* db.readEntry(topicHash, seq)
readEntry(seq) ==
    LET memseq == XOR(cacheID, seq)
        data == memGet(memseq)
        found == {s \in index : s.seq = seq}
        r == IF data # {}
             THEN LET k == CHOOSE x \in data : TRUE
                  IN [slot |-> [seq |-> setLog[k].seq, topicSize |-> setLog[k].topicSize,
                                topic |-> setLog[k].text],
                      err |-> "nil", from |-> "mem"]
             ELSE IF startBlockIndex(seq) >= blockIdx
             THEN [slot |-> ZeroSlot, err |-> "EOF", from |-> "index"]
             ELSE IF found # {}
             THEN [slot |-> CHOOSE s \in found : TRUE, err |-> "nil", from |-> "index"]
             ELSE [slot |-> ZeroSlot, err |-> "nil", from |-> "index"]
    IN /\ readRes' = [state |-> "done", seq |-> seq, slot |-> r.slot, err |-> r.err,
                      from |-> r.from,
                      cached |-> \E k \in InMem : setLog[k].seq = seq,
                      stored |-> found # {}]
       /\ UNCHANGED <<sequence, lease, entryVal, setLog, index, blockIdx, synced, cacheID,
                      loaded>>
       /\ UNCHANGED lookupVars
       /\ UNCHANGED headerVars
       /\ UNCHANGED notUdb

\* trie.add: the topic is inserted unless the trie has its hash.
trieAdd(tr, t) ==
    IF \E x \in tr : x.hash = t.hash THEN tr ELSE tr \cup {t}

RECURSIVE LoadBlocks(_, _, _, _)
\* The callback of loadTrie over the window blocks in the order given; topics
\* is the map from topic hash to the offset of the first block seen of it.
LoadBlocks(order, topics, tr, garbage) ==
    IF order = <<>> THEN [trie |-> tr, err |-> "nil"]
    ELSE LET off == Head(order)
             w == winBlocks[off]
             topics1 == IF \E t \in topics : t.hash = w.topicHash THEN topics
                        ELSE topics \cup {[hash |-> w.topicHash, offset |-> off]}
             we == w.entries[1]
             found == {s \in index : s.seq = we.seq}
         IN IF Len(w.entries) = 0 THEN LoadBlocks(Tail(order), topics, tr, garbage)
            ELSE IF w.next # 0 THEN LoadBlocks(Tail(order), topics1, tr, garbage)
            ELSE IF startBlockIndex(we.seq) >= blockIdx
                 THEN LoadBlocks(Tail(order), topics1, tr, garbage)
            ELSE IF found = {} THEN LoadBlocks(Tail(order), topics1, tr, garbage)
            ELSE LET s == CHOOSE x \in found : TRUE
                 IN IF s.topicSize = 0
                    THEN LoadBlocks(Tail(order), topics1, tr, garbage)
                    ELSE IF s.topic = 0 /\ ~garbage THEN [trie |-> tr, err |-> "err"]
                    ELSE LoadBlocks(Tail(order), topics1,
                             trieAdd(tr, CHOOSE t \in topics1 : t.hash = w.topicHash),
                             garbage)

\* The orders foreachWindowBlock can visit the window blocks in.
Orders == {f \in [1..Len(winBlocks) -> 1..Len(winBlocks)] :
              \A a, b \in 1..Len(winBlocks) : a # b => f[a] # f[b]}

\* The DB is opened again and db.loadTrie fills the empty trie from the
\* window file; garbage tells whether a topic text of zero bytes unmarshals.
loadTrie(order, garbage) ==
    /\ loaded.state = "no"
    /\ InMem = {}
    /\ LET r == LoadBlocks(order, {}, {}, garbage)
       IN /\ trie' = r.trie
          /\ loaded' = [state |-> "done", err |-> r.err, order |-> order]
    /\ UNCHANGED <<winBlocks, query>>
    /\ UNCHANGED <<sequence, lease, entryVal, setLog, index, blockIdx, synced, cacheID,
                   readRes>>
    /\ UNCHANGED headerVars
    /\ UNCHANGED notUdb

\* A new DB: no sequence given out, an empty lease, empty files; the callers
\* hold Entry values for a topic text that does not parse.
InitEntry ==
    /\ sequence = 0
    /\ lease = {}
    /\ entryVal = [i \in EntryVals |-> NewEntryVal(0)]
    /\ setLog = <<>>
    /\ index = {}
    /\ blockIdx = 0
    /\ synced = 0
    /\ cacheID = NewCacheID
    /\ readRes = [state |-> "no", seq |-> 0, slot |-> ZeroSlot, err |-> "nil",
                  from |-> "none", cached |-> FALSE, stored |-> FALSE]
    /\ loaded = [state |-> "no", err |-> "nil", order |-> <<>>]

NextEntry ==
    \/ \E i \in EntryVals, topic \in 0..MaxTopics : NewEntry(i, topic)
    \/ \E i \in EntryVals : NewID(i)
    \/ \E i \in EntryVals, slot \in lease \cup {[topicHash |-> 0, seq |-> 0]} :
           setEntry(i, slot)
    \/ Sync
    \/ \E k \in 1..Len(setLog) : dbDelete(k)

NextIndex ==
    \/ \E i \in EntryVals, topic \in 0..MaxTopics : NewEntry(i, topic)
    \/ \E i \in EntryVals, slot \in lease \cup {[topicHash |-> 0, seq |-> 0]} :
           setEntry(i, slot)
    \/ Sync
    \/ \E k \in 1..Len(setLog) : dbDelete(k)
    \/ \E seq \in 1..MaxSets : readEntry(seq)
    \/ \E order \in Orders, garbage \in BOOLEAN : loadTrie(order, garbage)

-----------------------------------------------------------------------------
\* unitdb: the header of the index file.

\* db.dbInfo, the fields of the DB the header carries.
dbInfo == [sequence |-> sequence, blockIdx |-> blockIdx, windowIdx |-> windowIdx,
           cacheID |-> cacheID]

\* readHeader takes any header it can read: the comparison of h.signature with
\* the signature is commented out.
signatureOK(h) == TRUE

\* db.writeHeader: the signature, the version and db.dbInfo go to offset 0 of
\* the index file; the window index is the one of the time window.
writeHeader ==
    /\ hdr' = [present |-> TRUE, signature |-> "unitdb",
               dbInfo |-> [dbInfo EXCEPT !.windowIdx = Len(winBlocks)]]
    /\ UNCHANGED <<windowIdx, headerRead>>
    /\ UNCHANGED <<lookupVars, entryVars>>
    /\ UNCHANGED notUdb

\* The first bytes of the index file are damaged: the signature no longer
\* reads 'unitdb 0xFE'; zeroed tells whether the fields after it read as zero.
DamageHeader(zeroed) ==
    /\ hdr.present
    /\ hdr.signature = "unitdb"
    /\ hdr' = [hdr EXCEPT !.signature = "other",
                          !.dbInfo = IF zeroed
                                     THEN [sequence |-> 0, blockIdx |-> 0, windowIdx |-> 0,
                                           cacheID |-> 0]
                                     ELSE @]
    /\ UNCHANGED <<windowIdx, headerRead>>
    /\ UNCHANGED <<lookupVars, entryVars>>
    /\ UNCHANGED notUdb

\* db.readHeader; the lease file holds the lease as it is.
readHeader ==
    LET err == IF ~hdr.present THEN "EOF"
               ELSE IF ~signatureOK(hdr) THEN "errCorrupted"
               ELSE "nil"
        info == IF err = "nil" THEN hdr.dbInfo ELSE dbInfo
    IN /\ sequence' = info.sequence
       /\ blockIdx' = info.blockIdx
       /\ windowIdx' = info.windowIdx
       /\ cacheID' = info.cacheID
       /\ headerRead' = [state |-> "done", err |-> err,
                         signature |-> IF hdr.present THEN hdr.signature ELSE "none",
                         before |-> dbInfo, after |-> info]
       /\ UNCHANGED hdr
       /\ UNCHANGED <<lease, entryVal, setLog, index, synced, readRes, loaded>>
       /\ UNCHANGED lookupVars
       /\ UNCHANGED notUdb

\* An index file without header, and a time window without blocks.
InitHeader ==
    /\ hdr = [present |-> FALSE, signature |-> "none",
              dbInfo |-> [sequence |-> 0, blockIdx |-> 0, windowIdx |-> 0, cacheID |-> 0]]
    /\ windowIdx = 0
    /\ headerRead = [state |-> "no", err |-> "nil", signature |-> "none",
                     before |-> [sequence |-> 0, blockIdx |-> 0, windowIdx |-> 0,
                                 cacheID |-> 0],
                     after |-> [sequence |-> 0, blockIdx |-> 0, windowIdx |-> 0,
                                cacheID |-> 0]]

NextHeader ==
    \/ \E i \in EntryVals, topic \in 0..MaxTopics : NewEntry(i, topic)
    \/ \E i \in EntryVals : NewID(i)
    \/ writeHeader
    \/ \E zeroed \in BOOLEAN : DamageHeader(zeroed)
    \/ readHeader

-----------------------------------------------------------------------------
\* Specifications.

\* The state after construction: a new time-mark and a new log file.
Init == InitTM /\ InitSeg /\ InitWal /\ InitDB /\ InitPool /\ InitTiny /\ InitIter /\ InitRelease /\ InitReaders /\ InitLookup /\ InitEntry /\ InitHeader

NextSeg ==
    \/ \E size \in AllocSizes : FileAllocate(size)
    \/ \E r \in allocated : FileFree(r)
    \/ FileSwap

SpecSeg == Init /\ [][NextSeg]_vars

SpecTM == Init /\ [][NextTM]_vars

SpecWal == Init /\ [][NextWal]_vars

SpecDB == Init /\ [][NextDB]_vars

SpecPool == Init /\ [][NextPool]_vars

SpecBatch == Init /\ [][NextBatch]_vars

SpecTiny == Init /\ [][NextTiny]_vars

SpecIter == Init /\ [][NextIter]_vars

SpecLookup == Init /\ [][NextLookup]_vars

SpecEntry == Init /\ [][NextEntry]_vars

SpecIndex == Init /\ [][NextIndex]_vars

SpecHeader == Init /\ [][NextHeader]_vars

SpecRelease == Init /\ [][NextRelease]_vars

SpecBatchRelease == Init /\ [][NextBatchRelease]_vars

SpecReaders == Init /\ [][NextReaders]_vars

\* The ticker, delete and the workers are goroutines that run whenever they can.
SpecTicker == Init /\ [][NextTicker]_vars /\ WF_vars(NextTicker)

\* Every goroutine that can take a step takes it in the end.
SpecClose == Init /\ [][NextClose]_vars /\ WF_vars(NextClose)

-----------------------------------------------------------------------------
\* Claims about the write-ahead log.

\* The callback was given what was appended to the group, to its end.
DeliveredIntact(d) ==
    \E i \in 1..Len(hist) :
        /\ hist[i].timeID = d.timeID
        /\ d.got = Payloads(hist[i].recs)
        /\ d.end = "done"

\* The history of the group a log on disk belongs to.
HistOf(timeID) == CHOOSE i \in 1..Len(hist) : hist[i].timeID = timeID

StatusOf(st) ==
    IF st = "written" THEN logStatusWritten
    ELSE IF st = "applied" THEN logStatusApplied
    ELSE logStatusReleased

\* C1: WAL round-trip: after Append(p_1..p_n) and a successful SignalInitWrite(t),
\* closing, reopening and running Reader.Read delivers the group t with Next
\* returning exactly p_1..p_n in order and then (nil, false), for any number of
\* groups and any BufferSize: every group handed to the callback is intact,
\* Read does not fail, and when it has returned nil no group is left WRITTEN.
C1_RoundTrip ==
    /\ \A k \in 1..Len(delivered) : DeliveredIntact(delivered[k])
    /\ readErr \notin {"err", "panic"}
    /\ drained = "now" => WrittenIdx(hist) = {}

RECURSIVE OwedEntries(_)
\* The entries of the owed groups from group i on, in the order they were written.
OwedEntries(i) ==
    IF i > Len(hist) THEN <<>>
    ELSE (IF i \in owed THEN hist[i].recs ELSE <<>>) \o OwedEntries(i + 1)

RECURSIVE Direct(_, _)
\* The original puts and deletes run directly on a map.
Direct(es, m) ==
    IF es = <<>> THEN m
    ELSE Direct(Tail(es), IF Head(es).del = 1 THEN MapDel(m, Head(es).key)
                          ELSE MapPut(m, Head(es).key, Head(es).val))

OwedMap == Direct(OwedEntries(1), EmptyMap)

\* C2: durability across a crash during recovery: whenever startRecover has
\* returned, every entry of a group that was WRITTEN and not APPLIED when a
\* startRecover found it is in the memdb, also when earlier startRecovers were
\* cut by a crash during Read, after Read, after Reset or during the re-Put loop.
C2_OwedReingested ==
    pc = "recovered" =>
        \A k \in DOMAIN OwedMap : k \in DOMAIN memdb /\ memdb[k] = OwedMap[k]

\* C3: WAL idempotence: when all groups of the log are WRITTEN and not APPLIED,
\* startRecover (replay, Reset, re-Put) without a crash leaves the memdb holding
\* exactly the key/value pairs the original puts and deletes produce.
C3_ReplayEqualsDirect ==
    (pc = "recovered" /\ cleanStart) => memdb = OwedMap

\* C4: wal.New returns needRecovery = true if and only if the log holds at
\* least one group with status WRITTEN (false for a fresh empty log, true after
\* a SignalInitWrite that was neither applied nor read).
C4_NeedRecoveryIffWritten ==
    pc = "opened" => (needRecovery <=> WrittenIdx(hist) # {})

\* C4 witness: a reopened log that holds a RELEASED and a WRITTEN group.
C4_Witness ==
    /\ pc = "opened"
    /\ needRecovery
    /\ \E i \in 1..Len(hist) : hist[i].st = "released"

C6_AppliedSkipped ==
    /\ \A i \in 1..Len(DiskLogs) :
         /\ \E j \in 1..Len(hist) : hist[j].timeID = DiskLogs[i].timeID
         /\ DiskLogs[i].status = StatusOf(hist[HistOf(DiskLogs[i].timeID)].st)
    /\ \A j \in 1..Len(hist) :
         hist[j].st = "applied" =>
             \E i \in 1..Len(DiskLogs) :
                 /\ DiskLogs[i].timeID = hist[j].timeID
                 /\ DiskLogs[i].status = logStatusApplied
    /\ \A k \in 1..Len(delivered) :
         \A j \in 1..Len(hist) :
             hist[j].timeID = delivered[k].timeID => hist[j].st # "applied"

\* C6 witness: Read skipped an APPLIED group and handed the WRITTEN group
\* behind it to the callback.
C6_Witness ==
    /\ Len(hist) = 2
    /\ hist[1].st = "applied"
    /\ hist[2].st = "released"
    /\ Len(delivered) = 1
    /\ delivered[1].timeID = hist[2].timeID

\* C7: torn write: when a crash cut SignalInitWrite before the WRITTEN header
\* was written, recovery never hands that group or a part of it to the
\* callback, and the groups written earlier are delivered intact.
C7_TornWriteIgnored ==
    torn # {} =>
        /\ \A k \in 1..Len(delivered) :
             /\ delivered[k].timeID \notin torn
             /\ DeliveredIntact(delivered[k])
        /\ readErr \notin {"err", "panic"}

-----------------------------------------------------------------------------
\* Claims about the segmented log file.

\* The bytes of a region or segment.
Bytes(off, size) == off .. (off + size - 1)

SegBytes(i) == Bytes(segments[i].offset, segments[i].size)

AllocatedBytes == UNION {Bytes(r.off, r.size) : r \in allocated}

UntrackedBytes == UNION {Bytes(r.off, r.size) : r \in untracked}

\* C8: segmented-file soundness: after any sequence of allocate, free and swap
\* from newSegments, the three segments are pairwise disjoint byte ranges
\* inside [headerSize, fileSize), no segment overlaps an allocated region, and
\* segments, allocated regions and untracked free regions cover [headerSize, fileSize).
C8_SegmentsSound ==
    /\ \A i \in 1..3 : \A j \in 1..3 : i # j => SegBytes(i) \cap SegBytes(j) = {}
    /\ \A i \in 1..3 : SegBytes(i) \subseteq headerSize .. (fsize - 1)
    /\ \A i \in 1..3 : SegBytes(i) \cap AllocatedBytes = {}
    /\ SegBytes(1) \cup SegBytes(2) \cup SegBytes(3) \cup AllocatedBytes \cup UntrackedBytes
         = headerSize .. (fsize - 1)

\* C8 witness: segment 1 was rotated in by swap and carved by allocate while
\* segment 0 holds freed bytes again and a region is allocated.
C8_Witness ==
    /\ segments[1].size > 0
    /\ segments[2].size > 0
    /\ segments[2].offset > headerSize
    /\ allocated # {}

-----------------------------------------------------------------------------
\* Claims about the time-mark.

\* C9, first half: isReleased(t) is false in every state in which t's reference
\* count (add calls minus release calls) has not yet dropped to zero.
C9_NotReleasedWhileReferenced ==
    \A t \in TimeIDs :
        (refCount[t] > 0 /\ t \notin everZero) => ~isReleased(t)

\* C9, second half: once isReleased(t) is true it stays true in the next state
\* unless the expirer has evicted t from releasedRecords.
C9_ReleasedStaysReleased ==
    \A t \in TimeIDs :
        (isReleased(t) /\ t \in DOMAIN releasedRecords') => isReleased(t)'

\* C9: for every TimeID t, isReleased(t) is false while t's reference count has
\* not yet dropped to zero, and once isReleased(t) has become true it stays true
\* in every later state until startExpirer evicts t.
C9_TimeMarkReleased ==
    [](C9_NotReleasedWhileReferenced) /\ [][C9_ReleasedStaysReleased]_vars

\* C10: add(tid) increments the reference count: while fewer release(tid) than
\* add(tid) calls were made, tid is in records holding as many references as
\* are outstanding; tid leaves records only with the release that matches the
\* last outstanding add.
C10_AddIncrementsRefs ==
    \A t \in TimeIDs :
        /\ refCount[t] > 0 => t \in DOMAIN records
        /\ t \in DOMAIN records => records[t].refs = refCount[t]

\* C11: after abort(tid), tid is absent from records, present in
\* releasedRecords with refs = -1, isAborted(tid) is true and isReleased(tid) is
\* false, whether tid was live, released or unknown before the abort.
C11_AbortPost ==
    [][\A t \in TimeIDs :
          abort(t) =>
              /\ t \notin DOMAIN records'
              /\ t \in DOMAIN releasedRecords'
              /\ releasedRecords'[t].refs = -1
              /\ isAborted(t)'
              /\ ~isReleased(t)']_vars

\* C11 witness: a timeID that was released and reported released has been aborted.
C11_Witness ==
    /\ lastAbort.from = "released"
    /\ lastAbort.tid \in everZero
    /\ isAborted(lastAbort.tid)
    /\ timeRecord > ClockBase + 1

\* C12: startExpirer removes from releasedRecords every entry whose lastUnref
\* plus the configured duration is not later than the wall clock (nanoseconds
\* since the epoch) and keeps every younger entry.
C12_ExpirerEvictsDue == sweep.kept = {} /\ sweep.lost = {}


-----------------------------------------------------------------------------
\* Claims about tiny-batches and the memdb locks.

\* C13: every tiny-batch that newTinyBatch creates has a timeID different from
\* that of every tiny-batch created before it, and at most one non-empty
\* tiny-batch per timeID is handed to the pool.
C13_TimeIDsUnique ==
    /\ \A i, j \in 1..Len(made) :
          (i < j /\ made[j].by = "newTinyBatch") => made[j].ID # made[i].ID
    /\ \A i, j \in 1..Len(writeQueue) :
          i # j => writeQueue[i].ID # writeQueue[j].ID

\* C15: a block in flight is never mutated: no record is put into the block of
\* a timeID after tinyBatchLoop handed that tiny-batch to the pool, and every
\* record put into a block is counted in the tiny-batch of that block.
C15_BlockInFlightUntouched ==
    \A i \in 1..Len(appended) :
        /\ ~appended[i].late
        /\ appended[i].counted = appended[i].block

\* C14: writes to the log are mutually exclusive: at most one goroutine is
\* between acquiring and releasing writeLockC, and the Append/SignalInitWrite
\* sequence of a tiny-batch is never interleaved with that of another.
C14_WriteLockExclusive ==
    /\ Cardinality(holders) <= 1
    /\ Cardinality(writing) <= 1
    /\ writing \subseteq holders

\* A worker is in the middle of its group while a second worker, recovery or
\* close contends for the lock.
C14_Witness ==
    \E w1, w2 \in Workers :
        /\ w1 # w2
        /\ worker[w1].pc = "appended"
        /\ worker[w2].pc = "acquire"
        /\ recov = "acquire"

\* C16: when the write of a tiny-batch fails inside tinyCommit, the caller
\* gets the error, the timeID is marked aborted in the time-mark and never
\* released, and the block of the tiny-batch is discarded.
C16_FailedCommitAborts ==
    \A i \in 1..Len(outcome) :
        outcome[i].err =>
            /\ isAborted(outcome[i].ID)
            /\ ~isReleased(outcome[i].ID)
            /\ outcome[i].ID \notin DOMAIN blockCache

\* The callers of close() that got past setClosed.
Winners == {c \in Closers : closer[c] \notin {"idle", "errClosed"}}

\* A caller of close() that does not win leaves the close signal, the pool,
\* the write lock and the log as they are.
LosersTouchNothing ==
    \A c \in Closers :
        (closer[c] = "idle" /\ closer'[c] = "errClosed") =>
            UNCHANGED <<closeC, poolStopped, writeLockC, walClosed, closed, closeW>>

\* The log is closed only once the close signal is closed, the pool is
\* stopped and every background task and tinyCommit has exited.
ClosedInOrder ==
    walClosed =>
        /\ closeC
        /\ poolStopped
        /\ closeW = 0
        /\ loop.pc = "stopped"
        /\ batchQueue = <<>>
        /\ \A w \in Workers : worker[w].pc = "idle"
        /\ user = "idle"
        /\ writing = {}

C17_BatchAtomic ==
    /\ bat.state \in {"open", "aborted"} =>
          \A k \in bat.keys : ~Visible(bat.ID, k)
    /\ bat.state = "aborted" => isAborted(bat.ID)
    /\ bat.state = "committed" =>
          /\ ~isAborted(bat.ID)
          /\ bat.ID \in DOMAIN blockCache
          /\ \A k \in bat.keys : iKey(FALSE, k) \in blockCache[bat.ID]

\* C19: a delete survives recovery: when a key was put and later deleted and
\* both records were in WRITTEN groups at reopen, the key is not in the memdb
\* after recovery, whatever the order tinyWrite serialized the records in.
C19_DeleteSurvivesRecovery ==
    (pc = "recovered" /\ cb = "recover" /\ cleanStart /\ readErr = "nil") =>
        \A k \in gone : k \notin DOMAIN memdb

-----------------------------------------------------------------------------
\* Claims about the item iterator.

\* C20: an item whose expiry time has passed is never returned by the
\* iterator and hides no other item: the loop over Next()/Valid()/Item() gets
\* every stored item that has not expired, exactly once.
C20_IterationComplete ==
    /\ \A i \in 1..Len(yielded) : yielded[i] \in Live
    /\ \A i, j \in 1..Len(yielded) : i # j => yielded[i] # yielded[j]
    /\ ipc = "done" => {yielded[i] : i \in 1..Len(yielded)} = Live
-----------------------------------------------------------------------------
\* Claims about the unitdb index.

C22_SequencesIncrease ==
    \A j, k \in 1..Len(setLog) :
        /\ setLog[k].err = "nil" => setLog[k].seq # 0
        /\ (/\ j < k
            /\ setLog[j].err = "nil" /\ ~setLog[j].ownID
            /\ setLog[k].err = "nil" /\ ~setLog[k].ownID)
           => setLog[j].seq < setLog[k].seq

\* C23: a setEntry whose topic fails to parse returns errBadRequest and
\* mutates nothing in the DB: the sequence counter, the lease and the trie
\* stay as they are, and the entry gets no seq and no cacheEntry.
C23_BadTopicMutatesNothing ==
    /\ [](\A k \in 1..Len(setLog) :
              setLog[k].topic = 0 <=> setLog[k].err = "errBadRequest")
    /\ [][(/\ Len(setLog') = Len(setLog) + 1
           /\ setLog'[Len(setLog')].err = "errBadRequest")
          => /\ sequence' = sequence
             /\ lease' = lease
             /\ trie' = trie
             /\ entryVal'[setLog'[Len(setLog')].entry].seq = 0
             /\ entryVal'[setLog'[Len(setLog')].entry].cacheEntry = <<>>]_vars

\* A setEntry has returned errBadRequest in a DB that has given out a
\* sequence and holds a freed slot.
C23_Witness ==
    /\ Len(setLog) > 0
    /\ setLog[Len(setLog)].err = "errBadRequest"
    /\ sequence > 0
    /\ lease # {}

\* C25: of the entries setEntry produces for one topic only the first carries
\* the topic text; every later entry on the topic has topicSize = 0.
C25_TopicTextOnce ==
    \A j, k \in 1..Len(setLog) :
        (/\ j < k
         /\ setLog[j].err = "nil" /\ setLog[k].err = "nil"
         /\ setLog[j].topic = setLog[k].topic)
        => setLog[k].topicSize = 0

\* C24: readEntry returns the entry of the memdb when the memdb holds seq
\* under cacheID XOR seq; on a miss it scans the index block of seq, and it
\* returns MsgIdDoesNotExist when no slot of the block carries seq, never a
\* zero-valued slot with a nil error.
C24_ReadEntryMissIsError ==
    readRes.state = "done" =>
        /\ readRes.cached => readRes.from = "mem" /\ readRes.slot.seq = readRes.seq
                             /\ readRes.err = "nil"
        /\ (~readRes.cached /\ readRes.stored)
               => readRes.from = "index" /\ readRes.slot.seq = readRes.seq
                  /\ readRes.err = "nil"
        /\ (~readRes.cached /\ ~readRes.stored) => readRes.err = "errMsgIdDoesNotExist"
        /\ ~(readRes.slot = ZeroSlot /\ readRes.err = "nil")

\* The index holds the text of the topic with an entry of the topic's chain.
HasTopicText(h) ==
    \E o \in 1..Len(winBlocks) :
        /\ winBlocks[o].topicHash = h
        /\ \E i \in 1..Len(winBlocks[o].entries), s \in index :
               /\ s.seq = winBlocks[o].entries[i].seq
               /\ s.topicSize # 0
               /\ s.topic = h

\* C26: after loadTrie has filled the trie from the window file, every topic
\* hash that has a stored topic text is in the trie exactly once, and no hash
\* is there twice, in whatever order the window blocks were visited.
C26_TrieHasEveryTopicOnce ==
    (loaded.state = "done" /\ loaded.err = "nil") =>
        \A h \in TopicHashes :
            /\ Cardinality({t \in trie : t.hash = h}) <= 1
            /\ HasTopicText(h) => \E t \in trie : t.hash = h

\* C27: readHeader on an index file whose first bytes are not the signature
\* fails with errCorrupted and leaves db.dbInfo and the window index as they were.
C27_BadSignatureIsCorrupted ==
    (headerRead.state = "done" /\ headerRead.signature = "other") =>
        /\ headerRead.err = "errCorrupted"
        /\ headerRead.after = headerRead.before

\* C28: a tinyCommit that returns nil has written one log group with the
\* timeID of the tiny-batch when the tiny-batch is not empty, and no other
\* tinyCommit has written a group with that timeID; it has released the timeID
\* once unless the tiny-batch is managed, and then it has left the time-mark
\* alone; for an empty tiny-batch it has written no group.
C28_CommitWritesOneGroup ==
    \A i \in 1..Len(outcome) :
        ~outcome[i].err =>
            /\ outcome[i].count # 0 =>
                   /\ outcome[i].wrote
                   /\ \A j \in 1..Len(outcome) :
                          (outcome[j].wrote /\ outcome[j].ID = outcome[i].ID) => j = i
                   /\ outcome[i].released = ~outcome[i].managed
            /\ outcome[i].count = 0 => ~outcome[i].wrote
            /\ outcome[i].managed => ~outcome[i].released

\* C29: the log group of a timeID is never APPLIED while the block of the
\* timeID is in blockCache, and when releaseLog(T) has returned nil the block
\* of T is absent and the group of T is APPLIED: releaseLog moves, removes the
\* block and signals, in this order.
C29_AppliedOnlyWithoutBlock ==
    /\ \A t \in applied : t \notin DOMAIN blockCache
    /\ \A i \in 1..Len(relLog) :
           ~relLog[i].err /\ ~relLog[i].panic => relLog[i].absent /\ relLog[i].applied

\* C30: when move(T) has returned nil, every deletion marker of the block of
\* T whose target timeID is still in blockCache has a deletion marker for the
\* same key in the block of the current tiny-batch, however many markers the
\* block holds.
C30_MoveReissuesEveryMarker ==
    rel.pc = "moved" => rel.missing = {}

\* C31: _File.allocate(size) with size > 0 either extends the file by size and
\* returns the old file size, when targetSize > file.size + size or segment 1
\* holds fewer than size bytes, or else returns the old offset of segment 1
\* and advances segment 1 by size; the unsigned size of segment 1 never
\* underflows, and the returned range overlaps no range that an earlier
\* allocate returned and that has not been freed.
C31_AllocateExtendsOrCarves ==
    /\ [](segments[2].size < WrappedUint32)
    /\ [][LET extended == fsize' > fsize
              carved == /\ segments'[2].offset > segments[2].offset
                        /\ segments'[1] = segments[1]
                        /\ segments'[3] = segments[3]
          IN /\ allocated' \ allocated # {} => extended \/ carved
             /\ extended =>
                  LET size == fsize' - fsize IN
                  /\ AllocateExtends(segments, size, fsize, segTargetSize)
                  /\ segments' = segments
                  /\ allocated' = allocated \cup {Region(fsize, size)}
                  /\ Bytes(fsize, size) \cap AllocatedBytes = {}
             /\ carved =>
                  LET size == segments'[2].offset - segments[2].offset IN
                  /\ ~AllocateExtends(segments, size, fsize, segTargetSize)
                  /\ segments[2].size >= size
                  /\ segments'[2].size = segments[2].size - size
                  /\ fsize' = fsize
                  /\ allocated' = allocated \cup {Region(segments[2].offset, size)}
                  /\ Bytes(segments[2].offset, size) \cap AllocatedBytes = {}]_vars

\* C31 witness: a region carved from segment 1 is allocated next to a region
\* that extended the file, and segment 1 still holds free bytes.
C31_Witness ==
    /\ segments[2].size > 0
    /\ \E r \in allocated : r.off + r.size = segments[2].offset
    /\ \E r \in allocated : r.off + r.size = fsize

\* C32: recoveryOffset(o) returns an offset r >= o that is not the start of a
\* non-empty free segment: it steps past every run of adjacent free segments
\* that begins at o, in whatever order the three segments lie in the file;
\* when o is not the start of a segment it returns o.
C32_RecoveryOffsetPastFree ==
    \A o \in headerSize..fsize :
        LET r == recoveryOffset(segments, o) IN
        /\ r >= o
        /\ \A i \in 1..3 : segments[i].size > 0 => r # segments[i].offset
        /\ (\A i \in 1..3 : o # segments[i].offset) => r = o

\* C32 witness: segment 0 and segment 1 are free and adjacent, and from the
\* start of segment 0 recoveryOffset steps past both.
C32_Witness ==
    /\ segments[1].size > 0
    /\ segments[2].size > 0
    /\ segments[1].offset + segments[1].size = segments[2].offset
    /\ recoveryOffset(segments, segments[1].offset) = segments[2].offset + segments[2].size

\* C35: when Reader.Read fails during recovery, startRecover returns the
\* error and does not reset the log: the log file is truncated by wal.Reset
\* only after every WRITTEN group was read successfully.
C35_FailedReadKeepsLog ==
    readErr = "err" => pc \notin {"afterReset", "recovered"}

\* The callback has returned an error for the i-th group handed to it.
Refused(i) == cb = "recover" /\ delivered[i].end = "err"

\* C33: when the callback returns an error for a group g, Read returns at once
\* with the error: no group is handed to the callback after g, g is still
\* WRITTEN in the log file and only the groups the callback accepted are
\* RELEASED, so that g is there to be delivered by the recovery of the next
\* reopen.
C33_RefusedGroupStaysWritten ==
    \A i \in 1..Len(delivered) :
        Refused(i) =>
            /\ i = Len(delivered)
            /\ pc # "reading"
            /\ \E j \in 1..Len(DiskLogs) :
                   /\ DiskLogs[j].timeID = delivered[i].timeID
                   /\ DiskLogs[j].status = logStatusWritten
            /\ \A j \in 1..Len(DiskLogs) :
                   DiskLogs[j].status = logStatusReleased =>
                       \E k \in 1..(i - 1) : /\ delivered[k].timeID = DiskLogs[j].timeID
                                             /\ delivered[k].end = "done"

\* C34: close() always terminates: a caller of close() that has won setClosed
\* returns in the end, under every interleaving with a tinyCommit or commit
\* that has passed its closed check, and possibly its closeW.Add(1), and has
\* not acquired writeLockC yet.
C34_CloseTerminates ==
    \A c \in Closers : (closer[c] = "won") ~> (closer[c] = "closed")

\* C36: when two Readers run Read concurrently on one log, each WRITTEN
\* group is handed to a callback at most once in total, and no Read indexes
\* recoveredLogs beyond its length because the other has shrunk or emptied it.
C36_ConcurrentReadersSafe ==
    /\ \A a, b \in 1..Len(handed) : a # b => handed[a] # handed[b]
    /\ ~outOfRange

\* C38: aborted is a stable state of a timeID: once isAborted(tid) is true, no
\* step of add, release or newTimeRecord makes isAborted(tid) false or
\* isReleased(tid) true, as long as the expirer has not evicted tid from
\* releasedRecords.
C38_AbortedIsStable ==
    [][\A t \in TimeIDs :
          isAborted(t) /\ t \in DOMAIN releasedRecords' =>
              isAborted(t)' /\ ~isReleased(t)']_vars

\* The free space the three segments track.
TrackedFree(sg) == sg[1].size + sg[2].size + sg[3].size

\* C39: swap never loses tracked free space: the sizes of the three segments
\* add up to the same before and after swap, when it merges segment 2 into an
\* adjacent segment 1 and when it rotates segment 0 into 1 and 1 into 2.
C39_SwapKeepsFreeSpace ==
    [][FileSwap => TrackedFree(segments') = TrackedFree(segments)]_vars

\* C40: releaseLog(T) for a timeID T that has no block in blockCache returns
\* errEntryDoesNotExist: it does not panic, it leaves blockCache as it is and
\* it does not signal the log group of T as applied.
C40_ReleaseOfMissingBlock ==
    \A i \in 1..Len(relLog) :
        relLog[i].noBlock =>
            /\ relLog[i].err
            /\ ~relLog[i].panic
            /\ relLog[i].absent
            /\ ~relLog[i].applied

====
